---- MODULE Spec2Model ----
(***************************************************************************)
(* NASIM Airways (flights app): the trip schedule / status / progress      *)
(* functions of flights/views.py, the tracking endpoints that guard them,  *)
(* and Booking.save of flights/models.py.                                  *)
(*                                                                         *)
(* Time is counted in whole minutes.  A trip is a record                   *)
(*   [depart_at, arrive_at, delay_minutes]                                 *)
(* as stored in the Trip table (delay_minutes is a NOT NULL                *)
(* PositiveSmallIntegerField, so it is a natural number here).             *)
(***************************************************************************)
EXTENDS Integers, Sequences, FiniteSets, TLC

VARIABLES
    trips,      \* Trip table: trip id -> [depart_at, arrive_at, delay_minutes]
    bookings,   \* Booking table: booking id -> [trip, reference, status]
    tickets,    \* SupportTicket table: ticket id -> [name, email, message, ...]
    now,        \* timezone.now(), in minutes
    call,       \* the last completed call or request, with its result
    procs       \* the Booking.save calls in flight, one slot per worker

vars == <<trips, bookings, tickets, now, call, procs>>

(***************************************************************************)
(* Bounds of the model.                                                    *)
(***************************************************************************)
BaseDepart == 180       \* base departure instant of the trips drawn
MaxDur == 120           \* longest trip duration drawn, minutes
MaxDelay == 120         \* longest delay drawn, minutes

TrackDepart == 60       \* base departure of the tracked trip (SpecTrack)
TrackDur == 30          \* its duration
TrackDelay == 120       \* the long delay drawn for it

MaxBookings == 2        \* rows the Booking table may hold (SpecBooking)
NumCandidates == MaxBookings + 1    \* distinct references the generator draws

Durations == {0 - 5, 0, 1, 50, 100, MaxDur}
Delays == {0, 1, 44, 45, 46, MaxDelay}
Horizon == BaseDepart + MaxDur + MaxDelay + 2
TimeLine == 0..Horizon
Steps == {0, 1, 7, 45}

(***************************************************************************)
(* Python float arithmetic (IEEE-754 binary64, round to nearest even), as  *)
(* used by int((elapsed_seconds / total_seconds) * 100).  A positive float *)
(* is [man, exp]: man the 53-bit mantissa as <<top, l1, l2, l3, l4>>, the  *)
(* leading bit followed by four 13-bit limbs, most significant first, and  *)
(* the value is man * 2^exp.  Operands stay below 2^17, so every           *)
(* intermediate fits the model checker's integers.                         *)
(***************************************************************************)
MantissaBits == 53
LimbBits == 13
NumLimbs == (MantissaBits - 1) \div LimbBits

RECURSIVE Pow2(_)
Pow2(n) == IF n = 0 THEN 1 ELSE 2 * Pow2(n - 1)

LimbBase == Pow2(LimbBits)

\* number of bits of a positive integer below 2^30
BitLength(n) == CHOOSE k \in 1..30 : Pow2(k - 1) <= n /\ n < Pow2(k)

RECURSIVE IncLimbs(_, _)
\* man + 1, the carry running up from limb i
IncLimbs(man, i) ==
    IF i = 1 \/ man[i] + 1 < LimbBase THEN [man EXCEPT ![i] = @ + 1]
    ELSE IncLimbs([man EXCEPT ![i] = 0], i - 1)

\* the float just above [man, exp]
NextUp(man, exp) ==
    LET m == IncLimbs(man, Len(man))
    IN  IF m[1] = 2
        THEN [man |-> [i \in 1..Len(man) |-> IF i = 1 THEN 1 ELSE 0], exp |-> exp + 1]
        ELSE [man |-> m, exp |-> exp]

\* round to nearest, ties to even: up says the discarded part is above one
\* half unit in the last place, tie says it is exactly one half
RoundNearestEven(man, exp, up, tie) ==
    IF up \/ (tie /\ man[Len(man)] % 2 = 1) THEN NextUp(man, exp)
    ELSE [man |-> man, exp |-> exp]

RECURSIVE Normalize(_, _, _)
\* scale the numerator by 2^shift until t <= num < 2t
Normalize(num, t, shift) ==
    IF num >= t THEN [num |-> num, shift |-> shift]
    ELSE Normalize(2 * num, t, shift + 1)

RECURSIVE DivLimbs(_, _, _, _)
\* n further quotient limbs of r / t by long division, r < t
DivLimbs(r, t, n, acc) ==
    IF n = 0 THEN [man |-> acc, rem |-> r]
    ELSE DivLimbs((r * LimbBase) % t, t, n - 1, Append(acc, (r * LimbBase) \div t))

\* float(e) / float(t) for integers 0 < e < t, correctly rounded
FloatDiv(e, t) ==
    LET n == Normalize(e, t, 0)
        q == DivLimbs(n.num - t, t, NumLimbs, <<1>>)
    IN  RoundNearestEven(q.man, 0 - n.shift - (MantissaBits - 1),
                         2 * q.rem > t, 2 * q.rem = t)

RECURSIVE MulLimbs(_, _, _, _, _)
\* the exact product man * c, limb by limb from the least significant end;
\* the top element of the result holds the leading bits, unnormalised
MulLimbs(man, i, c, carry, acc) ==
    IF i = 1 THEN <<c * man[1] + carry>> \o acc
    ELSE MulLimbs(man, i - 1, c, (c * man[i] + carry) \div LimbBase,
                  <<(c * man[i] + carry) % LimbBase>> \o acc)

\* f * float(c) for an integer 0 < c < 2^13, correctly rounded
FloatMul(f, c) ==
    LET p == MulLimbs(f.man, Len(f.man), c, 0, <<>>)
        extra == BitLength(p[1]) - 1
        unit == Pow2(extra)
        low == p[Len(p)] % unit
        shifted == [i \in 1..Len(p) |->
                       IF i = 1 THEN p[1] \div unit
                       ELSE (p[i - 1] % unit) * (LimbBase \div unit) + p[i] \div unit]
    IN  RoundNearestEven(shifted, f.exp + extra,
                         2 * low > unit, extra > 0 /\ 2 * low = unit)

\* int(f): truncation of a positive float below 2^14
FloatToInt(f) ==
    LET drop == 0 - f.exp
    IN  IF drop >= MantissaBits THEN 0
        ELSE (f.man[1] * LimbBase + f.man[2])
                 \div Pow2(drop - (MantissaBits - 1 - LimbBits))

\* int((elapsed_seconds / total_seconds) * 100), 0 < elapsed < total
ScaledRatio(elapsed_seconds, total_seconds) ==
    FloatToInt(FloatMul(FloatDiv(elapsed_seconds, total_seconds), 100))

\* timedelta.total_seconds() of a whole number of minutes (exact as a float)
total_seconds(minutes) == 60 * minutes

(***************************************************************************)
(* flights/views.py: schedule, status, progress.                           *)
(***************************************************************************)
TRACKING_UNLOCK_MINUTES == 45
BoardingMinutes == 45

\* Python's  x or y  on integers
_or(x, y) == IF x = 0 THEN y ELSE x

\* the arrival is left on the base schedule
_effective_schedule_base_arrival(trip) ==
    [depart_at |-> trip.depart_at + _or(trip.delay_minutes, 0),
     arrive_at |-> trip.arrive_at]

_effective_schedule(trip) ==
    [depart_at |-> trip.depart_at + _or(trip.delay_minutes, 0),
     arrive_at |-> trip.arrive_at + _or(trip.delay_minutes, 0)]

\* the Delayed rule is tried after Scheduled and Boarding instead of first
_status_for_trip_delayed_last(trip, t) ==
    LET depart_at == _effective_schedule(trip).depart_at
        arrive_at == _effective_schedule(trip).arrive_at
        boarding_open == depart_at - BoardingMinutes
    IN  IF t < boarding_open THEN "Scheduled"
        ELSE IF boarding_open <= t /\ t < depart_at THEN "Boarding"
        ELSE IF trip.delay_minutes > 0 /\ trip.depart_at <= t /\ t < depart_at
            THEN "Delayed"
        ELSE IF depart_at <= t /\ t < arrive_at THEN "In Air"
        ELSE "Arrived"

\* boarding opens one instant late: now <= boarding_open is still Scheduled
_status_for_trip_late_boarding(trip, t) ==
    LET depart_at == _effective_schedule(trip).depart_at
        arrive_at == _effective_schedule(trip).arrive_at
        boarding_open == depart_at - BoardingMinutes
    IN  IF trip.delay_minutes > 0 /\ trip.depart_at <= t /\ t < depart_at
            THEN "Delayed"
        ELSE IF t <= boarding_open THEN "Scheduled"
        ELSE IF boarding_open < t /\ t < depart_at THEN "Boarding"
        ELSE IF depart_at <= t /\ t < arrive_at THEN "In Air"
        ELSE "Arrived"

\* Scheduled is tested first and against the base departure, and the
\* boarding window is that of the delayed departure: a long-delayed trip
\* falls through to Arrived between the two
_status_for_trip_base_scheduled(trip, t) ==
    LET depart_at == _effective_schedule(trip).depart_at
        arrive_at == _effective_schedule(trip).arrive_at
        boarding_open == depart_at - BoardingMinutes
    IN  IF t < trip.depart_at - BoardingMinutes THEN "Scheduled"
        ELSE IF trip.delay_minutes > 0 /\ trip.depart_at <= t /\ t < depart_at
            THEN "Delayed"
        ELSE IF boarding_open <= t /\ t < depart_at THEN "Boarding"
        ELSE IF depart_at <= t /\ t < arrive_at THEN "In Air"
        ELSE "Arrived"

_status_for_trip(trip, t) ==
    LET depart_at == _effective_schedule(trip).depart_at
        arrive_at == _effective_schedule(trip).arrive_at
        boarding_open == depart_at - BoardingMinutes
    IN  IF trip.delay_minutes > 0 /\ trip.depart_at <= t /\ t < depart_at
            THEN "Delayed"
        ELSE IF t < boarding_open THEN "Scheduled"
        ELSE IF boarding_open <= t /\ t < depart_at THEN "Boarding"
        ELSE IF depart_at <= t /\ t < arrive_at THEN "In Air"
        ELSE "Arrived"

\* ScaledRatio tabulated once over the durations drawn (minutes -> minutes)
RatioTable ==
    [d \in Durations \cup {TrackDur} |->
        [m \in 1..(d - 1) |-> ScaledRatio(total_seconds(m), total_seconds(d))]]

\* the time remaining is taken for the time elapsed
_progress_percent_remaining(trip, t) ==
    LET depart_at == _effective_schedule(trip).depart_at
        arrive_at == _effective_schedule(trip).arrive_at
        total == total_seconds(arrive_at - depart_at)
        elapsed == total_seconds(arrive_at - t)
    IN  IF t <= depart_at THEN 0
        ELSE IF t >= arrive_at THEN 100
        ELSE IF total <= 0 THEN 100
        ELSE IF arrive_at - depart_at \in DOMAIN RatioTable
            THEN RatioTable[arrive_at - depart_at][arrive_at - t]
        ELSE ScaledRatio(elapsed, total)

\* the progress is taken over the base schedule, the delay left out
_progress_percent_base_schedule(trip, t) ==
    LET depart_at == trip.depart_at
        arrive_at == trip.arrive_at
        total == total_seconds(arrive_at - depart_at)
        elapsed == total_seconds(t - depart_at)
    IN  IF t <= depart_at THEN 0
        ELSE IF t >= arrive_at THEN 100
        ELSE IF total <= 0 THEN 100
        ELSE IF arrive_at - depart_at \in DOMAIN RatioTable
            THEN RatioTable[arrive_at - depart_at][t - depart_at]
        ELSE ScaledRatio(elapsed, total)

_progress_percent(trip, t) ==
    LET depart_at == _effective_schedule(trip).depart_at
        arrive_at == _effective_schedule(trip).arrive_at
        total == total_seconds(arrive_at - depart_at)
        elapsed == total_seconds(t - depart_at)
    IN  IF t <= depart_at THEN 0
        ELSE IF t >= arrive_at THEN 100
        ELSE IF total <= 0 THEN 100
        ELSE IF arrive_at - depart_at \in DOMAIN RatioTable
            THEN RatioTable[arrive_at - depart_at][t - depart_at]
        ELSE ScaledRatio(elapsed, total)

(***************************************************************************)
(* Specification SpecSched: one trip drawn from the bounded domain, and    *)
(* the three schedule functions called at instants that never go back.     *)
(***************************************************************************)
TripDomain ==
    {[depart_at |-> BaseDepart, arrive_at |-> BaseDepart + d, delay_minutes |-> m] :
        d \in Durations, m \in Delays}

NoCall == [op |-> "none", trip |-> 0, result |-> 0]

InitSched ==
    /\ trips \in [{1} -> TripDomain]
    /\ bookings = <<>>
    /\ procs = <<>>
    /\ tickets = <<>>
    /\ now = 0
    /\ call = NoCall

EffectiveScheduleCall(dt) ==
    /\ now + dt <= Horizon
    /\ now' = now + dt
    /\ call' = [op |-> "_effective_schedule", trip |-> 1,
                result |-> _effective_schedule(trips[1])]
    /\ UNCHANGED <<tickets, trips, bookings, procs>>

StatusForTripCall(dt) ==
    /\ now + dt <= Horizon
    /\ now' = now + dt
    /\ call' = [op |-> "_status_for_trip", trip |-> 1,
                result |-> _status_for_trip(trips[1], now')]
    /\ UNCHANGED <<tickets, trips, bookings, procs>>

ProgressPercentCall(dt) ==
    /\ now + dt <= Horizon
    /\ now' = now + dt
    /\ call' = [op |-> "_progress_percent", trip |-> 1,
                result |-> _progress_percent(trips[1], now')]
    /\ UNCHANGED <<tickets, trips, bookings, procs>>

NextSched ==
    \/ \E dt \in Steps : EffectiveScheduleCall(dt)
    \/ \E dt \in Steps : StatusForTripCall(dt)
    \/ \E dt \in Steps : ProgressPercentCall(dt)

SpecSched == InitSched /\ [][NextSched]_vars

(***************************************************************************)
(* Claims on the schedule functions (SpecSched).                           *)
(***************************************************************************)
StatusCalled == call.op = "_status_for_trip"
ProgressCalled == call.op = "_progress_percent"
ScheduleCalled == call.op = "_effective_schedule"

\* the trip the last call was about, and its delay-adjusted endpoints
CalledTrip == trips[call.trip]
EffDepart == CalledTrip.depart_at + CalledTrip.delay_minutes
EffArrive == CalledTrip.arrive_at + CalledTrip.delay_minutes
ValidTrip == CalledTrip.arrive_at > CalledTrip.depart_at

\* C1: for a trip with arrive_at > depart_at, _status_for_trip answers by the
\* first matching rule: Delayed if delay_minutes > 0 and base depart <= now <
\* effective depart; Scheduled if now < effective depart - 45; Boarding if
\* effective depart - 45 <= now < effective depart; In Air if effective depart
\* <= now < effective arrive; Arrived otherwise.  An undelayed trip is
\* Scheduled 180 min before departure, Boarding at depart - 40, In Air at
\* depart + 10 when that is before arrival, and Arrived from arrival on.
C1_StatusFirstMatch ==
    (StatusCalled /\ ValidTrip) =>
        LET delayed == /\ CalledTrip.delay_minutes > 0
                       /\ CalledTrip.depart_at <= now
                       /\ now < EffDepart
            undelayed == CalledTrip.delay_minutes = 0
        IN  /\ delayed => call.result = "Delayed"
            /\ (~delayed /\ now < EffDepart - 45) => call.result = "Scheduled"
            /\ (~delayed /\ EffDepart - 45 <= now /\ now < EffDepart)
                    => call.result = "Boarding"
            /\ (~delayed /\ EffDepart <= now /\ now < EffArrive)
                    => call.result = "In Air"
            /\ (~delayed /\ now >= EffArrive) => call.result = "Arrived"
            /\ (undelayed /\ now = CalledTrip.depart_at - 180)
                    => call.result = "Scheduled"
            /\ (undelayed /\ now = CalledTrip.depart_at - 40)
                    => call.result = "Boarding"
            /\ (undelayed /\ now = CalledTrip.depart_at + 10 /\ now < CalledTrip.arrive_at)
                    => call.result = "In Air"
            /\ (undelayed /\ now > CalledTrip.arrive_at) => call.result = "Arrived"

\* C1 witness: an undelayed trip seen Boarding 40 minutes before departure
C1_Witness ==
    /\ StatusCalled /\ ValidTrip
    /\ CalledTrip.delay_minutes = 0
    /\ now = CalledTrip.depart_at - 40
    /\ call.result = "Boarding"

StatusOrder == <<"Scheduled", "Boarding", "Delayed", "In Air", "Arrived">>

\* C2 as claimed: for every trip with arrive_at > depart_at and any delay, each
\* of the five statuses holds at some instant of the time line (five non-empty
\* intervals).
C2_FiveNonEmptyIntervals ==
    (StatusCalled /\ ValidTrip) =>
        \A i \in 1..Len(StatusOrder) :
            \E t \in TimeLine : _status_for_trip(CalledTrip, t) = StatusOrder[i]

\* the four boundaries of the partition, in order
BoundScheduled ==
    IF CalledTrip.depart_at < EffDepart - 45 THEN CalledTrip.depart_at
    ELSE EffDepart - 45
BoundBoarding == CalledTrip.depart_at
BoundDelayed == EffDepart
BoundInAir == EffArrive

\* C2 amended: the classifier partitions the time line into at most five
\* ordered, non-overlapping intervals: Scheduled before min(base depart,
\* effective depart - 45), then Boarding up to base depart, Delayed up to
\* effective depart, In Air up to effective arrive, Arrived from there on.
\* The Delayed interval is empty exactly when delay_minutes = 0 and the
\* Boarding interval exactly when delay_minutes >= 45.
C2_OrderedIntervals ==
    (StatusCalled /\ ValidTrip) =>
        /\ BoundScheduled <= BoundBoarding
        /\ BoundBoarding <= BoundDelayed
        /\ BoundDelayed < BoundInAir
        /\ (call.result = "Scheduled") <=> (now < BoundScheduled)
        /\ (call.result = "Boarding") <=> (BoundScheduled <= now /\ now < BoundBoarding)
        /\ (call.result = "Delayed") <=> (BoundBoarding <= now /\ now < BoundDelayed)
        /\ (call.result = "In Air") <=> (BoundDelayed <= now /\ now < BoundInAir)
        /\ (call.result = "Arrived") <=> (BoundInAir <= now)
        /\ (\E t \in TimeLine : _status_for_trip(CalledTrip, t) = "Delayed")
                <=> (CalledTrip.delay_minutes > 0)
        /\ (\E t \in TimeLine : _status_for_trip(CalledTrip, t) = "Boarding")
                <=> (CalledTrip.delay_minutes < 45)

\* C2 witness: a trip delayed by less than 45 minutes seen Delayed, the
\* case in which all five intervals exist
C2_Witness ==
    /\ StatusCalled /\ ValidTrip
    /\ CalledTrip.delay_minutes > 0 /\ CalledTrip.delay_minutes < 45
    /\ call.result = "Delayed"
    /\ \A i \in 1..Len(StatusOrder) :
            \E t \in TimeLine : _status_for_trip(CalledTrip, t) = StatusOrder[i]

\* C3: _progress_percent is an integer in 0..100 at every instant, and of two
\* successive calls (the clock never goes back) the later never returns less.
C3_ProgressMonotone ==
    /\ [](ProgressCalled => call.result \in 0..100)
    /\ [][(ProgressCalled /\ ProgressCalled') => call'.result >= call.result]_vars

\* C3 witness: a progress strictly inside the flight
C3_Witness ==
    /\ ProgressCalled
    /\ call.result > 0 /\ call.result < 100

\* C4 as claimed: 0 when now <= effective depart, 100 when now >= effective
\* arrive, otherwise exactly floor(100 * (now - depart) / (arrive - depart)).
C4_ExactFloor ==
    ProgressCalled =>
        call.result =
            IF now <= EffDepart THEN 0
            ELSE IF now >= EffArrive THEN 100
            ELSE (100 * (now - EffDepart)) \div (EffArrive - EffDepart)

\* C5: _effective_schedule shifts departure and arrival by exactly
\* delay_minutes, so the duration is the base duration, and with no delay the
\* effective schedule is the base schedule.
C5_DelayShiftsBothEnds ==
    ScheduleCalled =>
        /\ call.result.depart_at = CalledTrip.depart_at + CalledTrip.delay_minutes
        /\ call.result.arrive_at = CalledTrip.arrive_at + CalledTrip.delay_minutes
        /\ call.result.arrive_at - call.result.depart_at
                = CalledTrip.arrive_at - CalledTrip.depart_at
        /\ CalledTrip.delay_minutes = 0 =>
                /\ call.result.depart_at = CalledTrip.depart_at
                /\ call.result.arrive_at = CalledTrip.arrive_at

\* C5 witness: the schedule of a delayed trip
C5_Witness ==
    /\ ScheduleCalled
    /\ CalledTrip.delay_minutes > 0
    /\ call.result.depart_at > CalledTrip.depart_at

(***************************************************************************)
(* Booking references and request parameters are strings, modelled as      *)
(* sequences of one-character strings so that strip() and upper() act on   *)
(* them character by character.                                            *)
(***************************************************************************)
\* string.ascii_uppercase + string.digits
alphabet ==
    <<"A", "B", "C", "D", "E", "F", "G", "H", "I", "J", "K", "L", "M",
      "N", "O", "P", "Q", "R", "S", "T", "U", "V", "W", "X", "Y", "Z",
      "0", "1", "2", "3", "4", "5", "6", "7", "8", "9">>

ascii_lowercase ==
    <<"a", "b", "c", "d", "e", "f", "g", "h", "i", "j", "k", "l", "m",
      "n", "o", "p", "q", "r", "s", "t", "u", "v", "w", "x", "y", "z">>

Whitespace == {" "}

ReferenceLength == 8

\* the k-th reference drawn in the model: 8 characters of the alphabet
Candidate(k) ==
    [i \in 1..ReferenceLength |-> alphabet[((k * (i + 6)) % Len(alphabet)) + 1]]

UpperChar(ch) ==
    IF \E i \in 1..Len(ascii_lowercase) : ascii_lowercase[i] = ch
    THEN alphabet[CHOOSE i \in 1..Len(ascii_lowercase) : ascii_lowercase[i] = ch]
    ELSE ch

LowerChar(ch) ==
    IF \E i \in 1..Len(ascii_lowercase) : alphabet[i] = ch
    THEN ascii_lowercase[CHOOSE i \in 1..Len(ascii_lowercase) : alphabet[i] = ch]
    ELSE ch

upper(str) == [i \in 1..Len(str) |-> UpperChar(str[i])]
\* the code points ch.lower() consists of: one for every character but
\* U+0130, capital I with dot above, which lowers to "i" and the combining
\* dot U+0307.  A character outside ASCII is written by its code point name.
LowerCodePoints(ch) ==
    IF ch = "U+0130" THEN <<"i", "U+0307">> ELSE <<LowerChar(ch)>>

\* str.lower(), halving the string to keep the evaluation shallow
RECURSIVE lower(_)
lower(str) ==
    IF str = <<>> THEN <<>>
    ELSE IF Len(str) = 1 THEN LowerCodePoints(str[1])
    ELSE lower(SubSeq(str, 1, Len(str) \div 2))
             \o lower(SubSeq(str, Len(str) \div 2 + 1, Len(str)))

RECURSIVE lstrip(_)
lstrip(str) ==
    IF str # <<>> /\ str[1] \in Whitespace THEN lstrip(Tail(str)) ELSE str

RECURSIVE rstrip(_)
rstrip(str) ==
    IF str # <<>> /\ str[Len(str)] \in Whitespace
    THEN rstrip(SubSeq(str, 1, Len(str) - 1))
    ELSE str

strip(str) == rstrip(lstrip(str))

(***************************************************************************)
(* flights/views.py: the tracking window and the three tracking endpoints. *)
(* A request's query string is GET = [ref |-> values]: the list of values  *)
(* given for ref, empty when the parameter is absent.                      *)
(***************************************************************************)
CONFIRMED == "confirmed"
CANCELLED == "cancelled"

\* request.GET.get("ref") or ""
GetRef(GET) == IF GET.ref = <<>> THEN <<>> ELSE GET.ref[Len(GET.ref)]

\* the window opens at the base departure: the delay is ignored
_tracking_opens_at_base(trip) == trip.depart_at - TRACKING_UNLOCK_MINUTES

_tracking_opens_at(trip) ==
    _effective_schedule(trip).depart_at - TRACKING_UNLOCK_MINUTES

\* any booking of the trip with that reference counts, Cancelled or not
_authorized_booking_any_status(GET, trip_id) ==
    LET booking_ref == upper(strip(GetRef(GET)))
        found == {b \in DOMAIN bookings :
                     /\ bookings[b].trip = trip_id
                     /\ bookings[b].reference = booking_ref}
    IN  IF booking_ref = <<>> \/ found = {} THEN 0
        ELSE CHOOSE b \in found : \A c \in found : c <= b

\* the booking id found, 0 for None; .first() under ordering -created_at
_authorized_booking_for_trip(GET, trip_id) ==
    LET booking_ref == upper(strip(GetRef(GET)))
        found == {b \in DOMAIN bookings :
                     /\ bookings[b].trip = trip_id
                     /\ bookings[b].reference = booking_ref
                     /\ bookings[b].status = CONFIRMED}
    IN  IF booking_ref = <<>> \/ found = {} THEN 0
        ELSE CHOOSE b \in found : \A c \in found : c <= b

\* the window opens a quarter of an hour early
_is_tracking_open_early(trip, t) == t >= _tracking_opens_at(trip) - 15

_is_tracking_open(trip, t) == t >= _tracking_opens_at(trip)

BookingRequired ==
    [status_code |-> 403, code |-> "booking_required", opens_at |-> <<>>,
     payload |-> <<>>]

TrackingNotOpen(trip) ==
    [status_code |-> 403, code |-> "tracking_not_open",
     opens_at |-> <<_tracking_opens_at(trip)>>, payload |-> <<>>]

Ok200(body) ==
    [status_code |-> 200, code |-> "", opens_at |-> <<>>, payload |-> <<body>>]

\* the two guards every tracking endpoint starts with, then its payload
TrackingResponse(GET, trip_id, t, body) ==
    IF _authorized_booking_for_trip(GET, trip_id) = 0 THEN BookingRequired
    ELSE IF ~_is_tracking_open(trips[trip_id], t) THEN TrackingNotOpen(trips[trip_id])
    ELSE Ok200(body)

StatusPayload(trip_id, t) ==
    [trip_id |-> trip_id,
     status |-> _status_for_trip(trips[trip_id], t),
     progress_percent |-> _progress_percent(trips[trip_id], t),
     delay_minutes |-> trips[trip_id].delay_minutes,
     depart_at |-> _effective_schedule(trips[trip_id]).depart_at,
     arrive_at |-> _effective_schedule(trips[trip_id]).arrive_at]

\* the deterministic fallback message, by the facts it states
AiPayload(trip_id, t) ==
    [trip_id |-> trip_id,
     source |-> "fallback",
     status |-> _status_for_trip(trips[trip_id], t),
     delay_minutes |-> trips[trip_id].delay_minutes]

\* int(progress * 100) with progress = _progress_percent(trip, now) / 100.0
PositionProgress(p) == IF p = 0 \/ p = 100 THEN p ELSE ScaledRatio(p, 100)

PositionPayload(trip_id, t) ==
    [trip_id |-> trip_id,
     status |-> _status_for_trip(trips[trip_id], t),
     progress_percent |-> PositionProgress(_progress_percent(trips[trip_id], t)),
     delay_minutes |-> trips[trip_id].delay_minutes,
     depart_at |-> _effective_schedule(trips[trip_id]).depart_at,
     arrive_at |-> _effective_schedule(trips[trip_id]).arrive_at,
     mode |-> "simulated_live"]

(***************************************************************************)
(* Specification SpecTrack: two trips, a booking on each, passengers       *)
(* calling the tracking endpoints, operations staff delaying trips and     *)
(* changing booking statuses, and the clock.                               *)
(***************************************************************************)
TrackHorizon == TrackDepart + TrackDur + TrackDelay + 5

TrackTripIds == {1, 2}
TrackSteps == {5, 45}

\* the query strings tried: no ref, a blank ref, the reference of booking 1
\* exactly and in lower case with blanks around it, the reference of booking
\* 2, and a reference no booking has
RefInputs ==
    {<<>>, <<<<" ", " ">>>>, <<Candidate(1)>>,
     <<<<" ">> \o lower(Candidate(1)) \o <<" ">>>>,
     <<Candidate(2)>>, <<Candidate(3)>>}

Requests == {[ref |-> r] : r \in RefInputs}

InitTrack ==
    /\ \E d \in {0, TrackDelay} :
          trips = [i \in TrackTripIds |->
                      IF i = 1
                      THEN [depart_at |-> TrackDepart,
                            arrive_at |-> TrackDepart + TrackDur,
                            delay_minutes |-> d]
                      ELSE [depart_at |-> TrackDepart + 15,
                            arrive_at |-> TrackDepart + 15 + TrackDur,
                            delay_minutes |-> 0]]
    /\ bookings = [b \in {1, 2} |->
                      [trip |-> b, reference |-> Candidate(b), status |-> CONFIRMED]]
    /\ procs = <<>>
    /\ tickets = <<>>
    /\ now = 0
    /\ call = [op |-> "none", trip |-> 0, GET |-> [ref |-> <<>>], result |-> 0]

Tick(dt) ==
    /\ now + dt <= TrackHorizon
    /\ now' = now + dt
    /\ call' = [op |-> "tick", trip |-> 0, GET |-> [ref |-> <<>>], result |-> 0]
    /\ UNCHANGED <<tickets, trips, bookings, procs>>

trip_status_api(trip_id, GET) ==
    /\ call' = [op |-> "trip_status_api", trip |-> trip_id, GET |-> GET,
                result |-> TrackingResponse(GET, trip_id, now,
                                            StatusPayload(trip_id, now))]
    /\ UNCHANGED <<tickets, trips, bookings, procs, now>>

trip_ai_api(trip_id, GET) ==
    /\ call' = [op |-> "trip_ai_api", trip |-> trip_id, GET |-> GET,
                result |-> TrackingResponse(GET, trip_id, now,
                                            AiPayload(trip_id, now))]
    /\ UNCHANGED <<tickets, trips, bookings, procs, now>>

trip_position_api(trip_id, GET) ==
    /\ call' = [op |-> "trip_position_api", trip |-> trip_id, GET |-> GET,
                result |-> TrackingResponse(GET, trip_id, now,
                                            PositionPayload(trip_id, now))]
    /\ UNCHANGED <<tickets, trips, bookings, procs, now>>

\* TripAdmin action: queryset.update(delay_minutes=30, ...) on the selection
apply_30_min_delay(selected) ==
    /\ trips' = [i \in DOMAIN trips |->
                    IF i \in selected THEN [trips[i] EXCEPT !.delay_minutes = 30]
                    ELSE trips[i]]
    /\ call' = [op |-> "apply_30_min_delay", trip |-> 0, GET |-> [ref |-> <<>>],
                result |-> Cardinality(selected)]
    /\ UNCHANGED <<tickets, bookings, procs, now>>

\* BookingAdmin change form: status is the editable field changed here; the
\* booking has a reference, so Booking.save goes straight to the update
AdminSetBookingStatus(b, status) ==
    /\ bookings[b].reference # <<>>
    /\ bookings[b].status # status
    /\ bookings' = [bookings EXCEPT ![b].status = status]
    /\ call' = [op |-> "admin_change_booking", trip |-> 0, GET |-> [ref |-> <<>>],
                result |-> b]
    /\ UNCHANGED <<tickets, trips, procs, now>>

NextTrack ==
    \/ \E dt \in TrackSteps : Tick(dt)
    \/ \E i \in TrackTripIds, GET \in Requests : trip_status_api(i, GET)
    \/ \E i \in TrackTripIds, GET \in Requests : trip_ai_api(i, GET)
    \/ \E i \in TrackTripIds, GET \in Requests : trip_position_api(i, GET)
    \/ \E sel \in (SUBSET TrackTripIds) \ {{}} : apply_30_min_delay(sel)
    \/ \E b \in DOMAIN bookings, st \in {CONFIRMED, CANCELLED} :
           AdminSetBookingStatus(b, st)

SpecTrack == InitTrack /\ [][NextTrack]_vars

(***************************************************************************)
(* Claims on the tracking endpoints (SpecTrack).                           *)
(***************************************************************************)
TrackCalled == call.op \in {"trip_status_api", "trip_ai_api", "trip_position_api"}

\* the request named the reference of a Confirmed booking of the trip asked
\* for (blanks around it and letter case aside)
CarriesConfirmedRef ==
    \E b \in DOMAIN bookings :
        /\ bookings[b].trip = call.trip
        /\ bookings[b].status = CONFIRMED
        /\ call.GET.ref # <<>>
        /\ upper(strip(call.GET.ref[1])) = bookings[b].reference

\* C6: a tracking endpoint answers 403 booking_required, with no trip data,
\* whenever the request carries no ref, a ref of no booking of that trip (a
\* valid reference of another trip's booking included) or the ref of a
\* Cancelled booking, whatever the instant: never tracking_not_open nor 200.
C6_BookingRequiredFirst ==
    (TrackCalled /\ ~CarriesConfirmedRef) =>
        /\ call.result.status_code = 403
        /\ call.result.code = "booking_required"
        /\ call.result.payload = <<>>
        /\ call.result.opens_at = <<>>

\* C6 witness: the reference of a Cancelled booking of the trip, presented
\* before the tracking window opens, is answered booking_required
C6_Witness ==
    /\ TrackCalled
    /\ call.trip = 1
    /\ call.GET.ref = <<Candidate(1)>>
    /\ bookings[1].status = CANCELLED
    /\ now < trips[1].depart_at + trips[1].delay_minutes - 45
    /\ call.result.code = "booking_required"

MaxAttempts == 10

BookingModelFields == {"reference", "status", "seats"}
BookingFieldDefaults == [reference |-> <<>>, status |-> CONFIRMED, seats |-> 1]

\* the form also binds the reference field
BookingFormFields_with_reference ==
    {"passenger_name", "passenger_email", "passenger_phone", "seats", "reference"}

\* BookingForm.Meta.fields
BookingFormFields ==
    {"passenger_name", "passenger_email", "passenger_phone", "seats"}

\* form.save(commit=False): a new instance holding the bound fields of the
\* form and the model's defaults for every other field
BookingFormInstance(POST) ==
    [f \in BookingModelFields \cup {"id", "trip"} |->
        IF f \in {"id", "trip"} THEN 0
        ELSE IF f \in BookingFormFields /\ f \in DOMAIN POST THEN POST[f]
        ELSE BookingFieldDefaults[f]]

\* no unique index on reference
UniqueViolation_unindexed(reference, own_id) == FALSE

\* reference = CharField(unique=True): the write is refused when another row
\* holds the reference
UniqueViolation(reference, own_id) ==
    \E b \in DOMAIN bookings : b # own_id /\ bookings[b].reference = reference

\* Booking.objects.filter(reference=candidate).exists()
ReferenceExists(candidate) ==
    \E b \in DOMAIN bookings : bookings[b].reference = candidate

Idle == [pc |-> "idle", op |-> "none", inst |-> BookingFormInstance(<<>>), tries |-> 0]

\* save() starts: if not self.reference, enter the loop
StartSave(op, inst) ==
    [pc |-> IF inst.reference = <<>> THEN "generate" ELSE "write",
     op |-> op, inst |-> inst, tries |-> 0]

Row(inst) ==
    [trip |-> inst.trip, reference |-> inst.reference, status |-> inst.status,
     seats |-> inst.seats]

(***************************************************************************)
(* Specification SpecBooking: passengers booking and staff editing         *)
(* bookings concurrently, each Booking.save taken one database access at a *)
(* time.                                                                   *)
(***************************************************************************)
\* two requests at a time: enough for every interleaving of two saves
Workers == {1, 2}

\* a request is served by the first free worker
FirstIdle(w) == procs[w].pc = "idle" /\ \A v \in Workers : v < w => procs[v].pc # "idle"

\* the POST bodies tried: the form's fields alone, and with a reference
\* field added by the client (a well-formed reference the generator of the
\* model never draws)
Posts ==
    {[seats |-> 1], [seats |-> 1, reference |-> Candidate(NumCandidates)]}

InitBooking ==
    /\ trips = [i \in {1} |->
                   [depart_at |-> TrackDepart, arrive_at |-> TrackDepart + TrackDur,
                    delay_minutes |-> 0]]
    /\ bookings = <<>>
    /\ procs = [w \in Workers |-> Idle]
    /\ tickets = <<>>
    /\ now = 0
    /\ call = [op |-> "none", result |-> "none", reference |-> <<>>]

\* book_trip for a signed-in passenger with a valid form, up to the call of
\* booking.save()
BookTripBegin(w, trip_id, POST) ==
    /\ FirstIdle(w)
    /\ Len(bookings) + Cardinality({v \in Workers : procs[v].inst.id = 0
                                       /\ procs[v].pc # "idle"}) < MaxBookings
    /\ procs' = [procs EXCEPT ![w] =
                    StartSave("book_trip",
                              [BookingFormInstance(POST) EXCEPT !.trip = trip_id])]
    /\ call' = [op |-> "book_trip", result |-> "form bound",
                reference |-> IF "reference" \in DOMAIN POST THEN POST.reference
                              ELSE <<>>]
    /\ UNCHANGED <<tickets, trips, bookings, now>>

\* BookingAdmin change form: the row is loaded, a passenger field (name,
\* email, phone: not modelled) is edited, and save() is called on the
\* instance
AdminChangeBegin(w, b) ==
    /\ FirstIdle(w)
    /\ b \in DOMAIN bookings
    /\ procs' = [procs EXCEPT ![w] =
                    StartSave("admin_change_booking",
                              [id |-> b, trip |-> bookings[b].trip,
                               reference |-> bookings[b].reference,
                               status |-> bookings[b].status,
                               seats |-> bookings[b].seats])]
    /\ call' = [op |-> "admin_change_booking", result |-> "form bound",
                reference |-> <<>>]
    /\ UNCHANGED <<tickets, trips, bookings, now>>

\* one turn of the loop of Booking.save: a candidate is drawn and looked up
SaveGenerate(w, k) ==
    /\ procs[w].pc = "generate"
    /\ LET candidate == Candidate(k)
       IN  IF ~ReferenceExists(candidate)
           THEN procs' = [procs EXCEPT ![w].inst.reference = candidate,
                                       ![w].pc = "write"]
           ELSE procs' = [procs EXCEPT ![w].tries = @ + 1,
                                       ![w].pc = IF procs[w].tries + 1 = MaxAttempts
                                                 THEN "write" ELSE "generate"]
    /\ UNCHANGED <<tickets, trips, bookings, now, call>>

\* super().save(): insert the new row, or update the row of the instance
SaveWrite(w) ==
    /\ procs[w].pc = "write"
    /\ LET inst == procs[w].inst
       IN  IF UniqueViolation(inst.reference, inst.id)
           THEN /\ bookings' = bookings
                /\ call' = [op |-> procs[w].op, result |-> "IntegrityError",
                            reference |-> inst.reference]
           ELSE /\ bookings' = IF inst.id = 0 THEN Append(bookings, Row(inst))
                               ELSE [bookings EXCEPT ![inst.id] = Row(inst)]
                /\ call' = [op |-> procs[w].op, result |-> "saved",
                            reference |-> inst.reference]
    /\ procs' = [procs EXCEPT ![w] = Idle]
    /\ UNCHANGED <<tickets, trips, now>>

NextBooking ==
    \/ \E w \in Workers, POST \in Posts : BookTripBegin(w, 1, POST)
    \/ \E w \in Workers, b \in 1..MaxBookings : AdminChangeBegin(w, b)
    \/ \E w \in Workers, k \in 0..(NumCandidates - 1) : SaveGenerate(w, k)
    \/ \E w \in Workers : SaveWrite(w)

SpecBooking == InitBooking /\ [][NextBooking]_vars

(***************************************************************************)
(* Claims on Booking.save and book_trip (SpecBooking).                     *)
(***************************************************************************)
AlphabetChars == {alphabet[i] : i \in 1..Len(alphabet)}

WellFormedReference(reference) ==
    /\ Len(reference) = 8
    /\ \A i \in 1..Len(reference) : reference[i] \in AlphabetChars

\* C8 as claimed: every booking persisted through Booking.save without a
\* pre-set reference has a reference of exactly 8 characters of A-Z and 0-9,
\* found within at most 10 candidates.
C8_PersistedReferenceWellFormed ==
    /\ \A b \in DOMAIN bookings : WellFormedReference(bookings[b].reference)
    /\ \A w \in Workers : procs[w].tries <= 10

\* C9: no two persisted bookings share a reference, also when two saves
\* interleave between the lookup of a candidate and the insert.
C9_ReferencesUnique ==
    \A b1, b2 \in DOMAIN bookings :
        b1 # b2 => bookings[b1].reference # bookings[b2].reference

\* C9 witness: a save whose candidate was free when looked up and taken by
\* another booking before the insert, which the table then refused
C9_Witness ==
    /\ call.result = "IntegrityError"
    /\ call.op = "book_trip"
    /\ WellFormedReference(call.reference)
    /\ \E b \in DOMAIN bookings : bookings[b].reference = call.reference

\* C10 as claimed: the instance book_trip builds from the form never takes
\* its reference from the request, and a persisted booking whose reference is
\* non-empty keeps that reference through every later save.
C10_ReferenceServerSideAndImmutable ==
    [][ /\ \A w \in Workers :
               (procs[w].pc = "idle" /\ procs'[w].op = "book_trip")
                   => procs'[w].inst.reference = <<>>
        /\ \A b \in DOMAIN bookings :
               bookings[b].reference # <<>>
                   => bookings'[b].reference = bookings[b].reference ]_vars

(***************************************************************************)
(* django.core.validators.validate_email, which flights/views.py imports   *)
(* and BookingForm's EmailField applies: the address is split at its last  *)
(* "@", the local part is a dot-atom and the domain is an allow-listed     *)
(* name or dot-separated labels ending in a top-level label.  Quoted local *)
(* parts and bracketed address literals are not drawn in the model.        *)
(***************************************************************************)
Uppercase == {alphabet[i] : i \in 1..26}
Lowercase == {ascii_lowercase[i] : i \in 1..26}
Digits == {alphabet[i] : i \in 27..36}
Alnum == Uppercase \cup Lowercase \cup Digits

AtomChars ==
    Alnum \cup {"-", "!", "#", "$", "%", "&", "'", "*", "+", "/", "=", "?",
                "^", "_", "{", "}", "|", "~"}

Contains(str, ch) == \E i \in 1..Len(str) : str[i] = ch

\* str.split(sep) for a one-character separator
RECURSIVE SplitOn(_, _)
SplitOn(str, sep) ==
    IF Contains(str, sep)
    THEN LET i == CHOOSE j \in 1..Len(str) :
                      str[j] = sep /\ \A h \in 1..(j - 1) : str[h] # sep
         IN  <<SubSeq(str, 1, i - 1)>> \o SplitOn(SubSeq(str, i + 1, Len(str)), sep)
    ELSE <<str>>

\* value.rsplit("@", 1)
RSplitAt(value) ==
    LET i == CHOOSE j \in 1..Len(value) :
                 value[j] = "@" /\ \A h \in (j + 1)..Len(value) : value[h] # "@"
    IN  [user_part |-> SubSeq(value, 1, i - 1),
         domain_part |-> SubSeq(value, i + 1, Len(value))]

user_regex(user_part) ==
    LET atoms == SplitOn(user_part, ".")
    IN  \A k \in 1..Len(atoms) :
            /\ atoms[k] # <<>>
            /\ \A i \in 1..Len(atoms[k]) : atoms[k][i] \in AtomChars

DomainLabel(label) ==
    /\ Len(label) \in 1..63
    /\ label[1] \in Alnum /\ label[Len(label)] \in Alnum
    /\ \A i \in 1..Len(label) : label[i] \in Alnum \cup {"-"}

TopLevelLabel(label) ==
    /\ Len(label) \in 2..63
    /\ \A i \in 1..Len(label) : label[i] \in Alnum \cup {"-"}
    /\ label[Len(label)] # "-"

validate_domain_part(domain_part) ==
    LET labels == SplitOn(domain_part, ".")
    IN  /\ Len(labels) >= 2
        /\ \A k \in 1..(Len(labels) - 1) : DomainLabel(labels[k])
        /\ TopLevelLabel(labels[Len(labels)])

domain_allowlist == {<<"l", "o", "c", "a", "l", "h", "o", "s", "t">>}

\* TRUE when validate_email(value) returns, FALSE when it raises
\* ValidationError
validate_email(value) ==
    /\ value # <<>>
    /\ Contains(value, "@")
    /\ user_regex(RSplitAt(value).user_part)
    /\ \/ RSplitAt(value).domain_part \in domain_allowlist
       \/ validate_domain_part(RSplitAt(value).domain_part)

(***************************************************************************)
(* flights/forms.py, flights/views.py: BookingForm validation and the      *)
(* whole of book_trip, one request at a time.  A user is                   *)
(*   [id, is_authenticated, is_staff]   and a POST body a record of the    *)
(* fields the client sent; a row of the table here also holds the user.    *)
(***************************************************************************)
AnonymousUser == [id |-> 0, is_authenticated |-> FALSE, is_staff |-> FALSE]
Passenger == [id |-> 1, is_authenticated |-> TRUE, is_staff |-> FALSE]
Staff == [id |-> 2, is_authenticated |-> TRUE, is_staff |-> TRUE]

\* BookingForm(request.POST).is_valid(): passenger_name and passenger_email
\* are required and stripped, the email is validated, and seats is the form
\* field of PositiveSmallIntegerField, an integer with min_value 0.  The
\* widget's attrs min=1 max=9 are HTML attributes and validate nothing.
BookingFormIsValid(POST) ==
    /\ "passenger_name" \in DOMAIN POST /\ strip(POST.passenger_name) # <<>>
    /\ "passenger_email" \in DOMAIN POST
    /\ validate_email(strip(POST.passenger_email))
    /\ "seats" \in DOMAIN POST /\ POST.seats >= 0

\* booking.user is left unset
NewBooking_without_user(POST, trip_id, user) ==
    [BookingFormInstance(POST) EXCEPT !.trip = trip_id] @@ [user |-> 0]

\* form.save(commit=False); booking.trip = trip; booking.user = request.user
NewBooking(POST, trip_id, user) ==
    [BookingFormInstance(POST) EXCEPT !.trip = trip_id] @@ [user |-> user.id]

BookTripRow(inst) == Row(inst) @@ [user |-> inst.user]

\* the candidates worth drawing: references are interchangeable, so a draw is
\* one of the candidates the table may hold or the next one, which is free
DrawnCandidates == 0..Len(bookings)

\* the references the loop of Booking.save can leave on an instance that has
\* none, with n turns left: a free candidate ends the loop, a colliding one
\* uses up a turn
RECURSIVE SaveReferences(_)
SaveReferences(n) ==
    IF n = 0 THEN {<<>>}
    ELSE {Candidate(k) : k \in {j \in DrawnCandidates :
                                    ~ReferenceExists(Candidate(j))}}
         \cup (IF \E k \in DrawnCandidates : ReferenceExists(Candidate(k))
               THEN SaveReferences(n - 1) ELSE {})

\* Booking.save up to super().save(): if not self.reference, the loop
SavedReferences(inst) ==
    IF inst.reference = <<>> THEN SaveReferences(MaxAttempts) ELSE {inst.reference}

\* the responses of book_trip
RedirectSignin(trip_id) == [status |-> 302, to |-> "/signin/", trip |-> trip_id, ref |-> <<>>]
RedirectAdmin == [status |-> 302, to |-> "/admin/", trip |-> 0, ref |-> <<>>]
RedirectTrip(trip_id, reference) ==
    [status |-> 302, to |-> "/trip/", trip |-> trip_id, ref |-> reference]
NotFound == [status |-> 404, to |-> "", trip |-> 0, ref |-> <<>>]
BadRequest == [status |-> 400, to |-> "", trip |-> 0, ref |-> <<>>]
ServerError == [status |-> 500, to |-> "", trip |-> 0, ref |-> <<>>]

(***************************************************************************)
(* Specification SpecBookTrip: book_trip requests served one after another *)
(***************************************************************************)
Users == {AnonymousUser, Passenger, Staff}

SeatInputs == {0 - 1, 0, 1, 10}

GoodName == <<"M", "i", "s", "a", "n", " ", "R", "i", "j", "a", "l">>
GoodEmail == <<"m", "i", "s", "a", "n", "@", "e", "x", "a", "m", "p", "l", "e", ".", "c", "o", "m">>

BookPosts ==
    {[passenger_name |-> GoodName, passenger_email |-> GoodEmail, seats |-> s] :
        s \in SeatInputs}
    \cup {[passenger_name |-> <<" ">>, passenger_email |-> GoodEmail, seats |-> 2],
          [passenger_name |-> GoodName, passenger_email |-> <<"m", "i", "s", "a", "n", "@", "e", "x", "a", "m", "p", "l", "e">>, seats |-> 2],
          [passenger_name |-> GoodName, passenger_email |-> GoodEmail]}

BookTripIds == {1, 2, 3}

InitBookTrip ==
    /\ trips = [i \in {1, 2} |->
                   [depart_at |-> TrackDepart, arrive_at |-> TrackDepart + TrackDur,
                    delay_minutes |-> 0]]
    /\ bookings = <<>>
    /\ procs = <<>>
    /\ tickets = <<>>
    /\ now = 0
    /\ call = [op |-> "none"]

book_trip(user, trip_id, POST) ==
    /\ UNCHANGED <<tickets, trips, procs, now>>
    /\ LET respond(result) ==
               call' = [op |-> "book_trip", user |-> user, trip |-> trip_id,
                        POST |-> POST, result |-> result]
       IN  IF ~user.is_authenticated
           THEN respond(RedirectSignin(trip_id)) /\ UNCHANGED bookings
           ELSE IF user.is_staff
           THEN respond(RedirectAdmin) /\ UNCHANGED bookings
           ELSE IF trip_id \notin DOMAIN trips
           THEN respond(NotFound) /\ UNCHANGED bookings
           ELSE IF BookingFormIsValid(POST)
           THEN /\ Len(bookings) < MaxBookings
                /\ \E reference \in SavedReferences(NewBooking(POST, trip_id, user)) :
                       LET booking == [NewBooking(POST, trip_id, user)
                                           EXCEPT !.reference = reference]
                       IN  IF UniqueViolation(booking.reference, booking.id)
                           THEN respond(ServerError) /\ UNCHANGED bookings
                           ELSE /\ bookings' = Append(bookings, BookTripRow(booking))
                                /\ respond(RedirectTrip(trip_id, booking.reference))
           ELSE respond(BadRequest) /\ UNCHANGED bookings

NextBookTrip ==
    \E user \in Users, trip_id \in BookTripIds, POST \in BookPosts :
        book_trip(user, trip_id, POST)

SpecBookTrip == InitBookTrip /\ [][NextBookTrip]_vars

(***************************************************************************)
(* Claims on book_trip (SpecBookTrip).                                     *)
(***************************************************************************)
BookTripCalled == call.op = "book_trip"

\* C11 as claimed: every booking created through book_trip has a seat count
\* in 1..9, and a passenger's POST whose seats value is outside 1..9 is
\* answered 400 without creating a booking.
C11_SeatsInRange ==
    /\ \A b \in DOMAIN bookings : bookings[b].seats \in 1..9
    /\ (/\ BookTripCalled
        /\ call.user = Passenger /\ call.trip \in DOMAIN trips
        /\ "seats" \in DOMAIN call.POST /\ call.POST.seats \notin 1..9)
           => call.result.status = 400

\* C12: book_trip changes the set of bookings only for an authenticated,
\* non-staff requester with a valid form; an anonymous POST is redirected to
\* /signin/ and a staff POST to /admin/ with the bookings unchanged, an
\* invalid form is answered 400 with the bookings unchanged, and a POST
\* answered by the redirect to the trip page has added exactly one Confirmed
\* booking, bound to the trip of the URL and to the requesting user, whose
\* reference is the ref of the redirect.
C12_BookTripCreatesOnlyWhenAllowed ==
    [][ call'.op = "book_trip" =>
          LET user == call'.user
              result == call'.result
              valid == BookingFormIsValid(call'.POST)
              new == bookings'[Len(bookings')]
          IN  /\ bookings' # bookings =>
                     user.is_authenticated /\ ~user.is_staff /\ valid
              /\ ~user.is_authenticated =>
                     result.status = 302 /\ result.to = "/signin/"
                         /\ bookings' = bookings
              /\ user.is_authenticated /\ user.is_staff =>
                     result.status = 302 /\ result.to = "/admin/"
                         /\ bookings' = bookings
              /\ (user.is_authenticated /\ ~user.is_staff
                      /\ call'.trip \in DOMAIN trips /\ ~valid) =>
                     result.status = 400 /\ bookings' = bookings
              /\ result.to = "/trip/" =>
                     /\ Len(bookings') = Len(bookings) + 1
                     /\ SubSeq(bookings', 1, Len(bookings)) = bookings
                     /\ new.status = CONFIRMED
                     /\ new.trip = call'.trip /\ result.trip = call'.trip
                     /\ new.user = user.id /\ user.id # 0
                     /\ result.status = 302 /\ result.ref = new.reference ]_vars

\* C12 witness: a passenger's second booking, on trip 2, answered by the
\* redirect carrying the new booking's reference
C12_Witness ==
    /\ BookTripCalled /\ call.user = Passenger /\ call.trip = 2
    /\ call.result.to = "/trip/"
    /\ Len(bookings) = 2
    /\ bookings[2].trip = 2 /\ bookings[2].user = Passenger.id
    /\ bookings[2].reference = call.result.ref /\ call.result.ref # <<>>

(***************************************************************************)
(* flights/views.py: _triage_support_message.  A message is a sequence of  *)
(* characters; a reply is kept as the text the code returns.               *)
(***************************************************************************)
\* keyword in lower_message
In(sub, str) ==
    \E i \in 1..(Len(str) - Len(sub) + 1) : SubSeq(str, i, i + Len(sub) - 1) = sub

easy_rules ==
    <<[keywords |-> <<<<"c", "h", "e", "c", "k", "-", "i", "n">>, <<"c", "h", "e", "c", "k", " ", "i", "n">>, <<"c", "h", "e", "c", "k", "i", "n">>>>,
       reply |-> "Online check-in usually opens 24 hours before departure and closes 60 minutes before takeoff for most routes."],
      [keywords |-> <<<<"b", "a", "g", "g", "a", "g", "e">>, <<"b", "a", "g">>, <<"l", "u", "g", "g", "a", "g", "e">>, <<"c", "a", "r", "r", "y", " ", "o", "n">>, <<"c", "a", "r", "r", "y", "-", "o", "n">>>>,
       reply |-> "Most guests can bring 1 carry-on and 1 personal item. Checked baggage depends on fare type, so share your route and I can help estimate it."],
      [keywords |-> <<<<"r", "e", "f", "u", "n", "d">>, <<"c", "a", "n", "c", "e", "l">>, <<"c", "a", "n", "c", "e", "l", "l", "a", "t", "i", "o", "n">>>>,
       reply |-> "Refund timing depends on fare rules. Non-refundable fares often return taxes only; flexible fares can be refunded to your original payment method."],
      [keywords |-> <<<<"p", "a", "y", "m", "e", "n", "t">>, <<"c", "a", "r", "d">>, <<"p", "a", "y">>>>,
       reply |-> "Accepted payment methods include major cards. If payment fails, try matching billing address and retry with a fresh session."],
      [keywords |-> <<<<"r", "e", "s", "c", "h", "e", "d", "u", "l", "e">>, <<"c", "h", "a", "n", "g", "e", " ", "f", "l", "i", "g", "h", "t">>, <<"c", "h", "a", "n", "g", "e", " ", "b", "o", "o", "k", "i", "n", "g">>, <<"c", "h", "a", "n", "g", "e", " ", "t", "i", "c", "k", "e", "t">>>>,
       reply |-> "You can change eligible bookings from Manage Trip. Change fees and fare differences depend on fare rules and route."],
      [keywords |-> <<<<"b", "o", "a", "r", "d", "i", "n", "g", " ", "p", "a", "s", "s">>, <<"m", "o", "b", "i", "l", "e", " ", "p", "a", "s", "s">>, <<"p", "a", "s", "s">>>>,
       reply |-> "After successful check-in, your boarding pass is available in My Trips and can be downloaded to your phone."]>>

complex_signals ==
    <<<<"c", "o", "m", "p", "l", "a", "i", "n", "t">>, <<"l", "e", "g", "a", "l">>, <<"c", "h", "a", "r", "g", "e", "b", "a", "c", "k">>, <<"e", "m", "e", "r", "g", "e", "n", "c", "y">>, <<"m", "e", "d", "i", "c", "a", "l">>,
      <<"v", "i", "s", "a">>, <<"p", "a", "s", "s", "p", "o", "r", "t", " ", "i", "s", "s", "u", "e">>, <<"g", "r", "o", "u", "p", " ", "b", "o", "o", "k", "i", "n", "g">>, <<"c", "o", "r", "p", "o", "r", "a", "t", "e", " ", "b", "o", "o", "k", "i", "n", "g">>,
      <<"s", "p", "e", "c", "i", "a", "l", " ", "a", "s", "s", "i", "s", "t", "a", "n", "c", "e">>, <<"n", "o", "t", " ", "r", "e", "c", "e", "i", "v", "e", "d">>, <<"f", "r", "a", "u", "d">>, <<"r", "e", "p", "r", "e", "s", "e", "n", "t", "a", "t", "i", "v", "e">>,
      <<"a", "g", "e", "n", "t">>>>

MaxAutoLength == 220

GenericReply ==
    "I can help with check-in, baggage, payment, booking changes, and refund policy. If you share more details, I will try to solve it first."

_triage_support_message(message) ==
    LET lower_message == lower(message)
        matching == {g \in 1..Len(easy_rules) :
                        \E k \in 1..Len(easy_rules[g].keywords) :
                            In(easy_rules[g].keywords[k], lower_message)}
        first == CHOOSE g \in matching : \A h \in matching : g <= h
    IN  IF matching # {}
        THEN [handled_by |-> "ai", escalate |-> FALSE, reply |-> easy_rules[first].reply]
        ELSE IF (\E s \in 1..Len(complex_signals) : In(complex_signals[s], lower_message))
                   \/ Len(lower_message) > MaxAutoLength
        THEN [handled_by |-> "ai", escalate |-> TRUE]
        ELSE [handled_by |-> "ai", escalate |-> FALSE, reply |-> GenericReply]

(***************************************************************************)
(* Specification SpecTriage: a message is drawn and triaged.               *)
(***************************************************************************)
EasyKeywords ==
    UNION {{easy_rules[g].keywords[k] : k \in 1..Len(easy_rules[g].keywords)} :
               g \in 1..Len(easy_rules)}
Signals == {complex_signals[s] : s \in 1..Len(complex_signals)}

Filler(n) == [i \in 1..n |-> "x"]

\* every keyword and signal alone and inside a sentence, in lower and in upper
\* case; every signal followed by an easy topic; messages without any
\* keyword around the length limit, one of them holding U+0130
TriageMessages ==
    {pre \o word \o post :
        pre \in {<<>>, <<"I", " ", "n", "e", "e", "d", " ", "h", "e", "l", "p", ":", " ">>},
        word \in EasyKeywords \cup Signals
                    \cup {upper(w) : w \in EasyKeywords \cup Signals},
        post \in {<<>>, <<" ", "t", "o", "d", "a", "y">>}}
    \cup {signal \o <<" ", "a", "b", "o", "u", "t", " ", "m", "y", " ">> \o topic :
             signal \in Signals, topic \in {<<"b", "a", "g">>, <<"r", "e", "f", "u", "n", "d">>}}
    \cup {<<"h", "e", "l", "l", "o">>, <<"H", "e", "l", "l", "o", " ", "t", "h", "e", "r", "e">>, <<>>,
          Filler(MaxAutoLength - 1), Filler(MaxAutoLength),
          Filler(MaxAutoLength + 1),
          <<"U+0130">> \o Filler(MaxAutoLength - 1),
          <<"a", "g", "e", "n", "t", " ">> \o Filler(MaxAutoLength),
          <<"p", "a", "y", " ">> \o Filler(MaxAutoLength)}

InitTriage ==
    /\ trips = <<>>
    /\ bookings = <<>>
    /\ tickets = <<>>
    /\ procs = <<>>
    /\ now = 0
    /\ \E message \in TriageMessages :
           call = [op |-> "none", message |-> message, result |-> [handled_by |-> "none"]]

TriageCall ==
    /\ call.op = "none"
    /\ call' = [op |-> "_triage_support_message", message |-> call.message,
                result |-> _triage_support_message(call.message)]
    /\ UNCHANGED <<tickets, trips, bookings, procs, now>>

NextTriage == TriageCall

SpecTriage == InitTriage /\ [][NextTriage]_vars

(***************************************************************************)
(* Claims on _triage_support_message (SpecTriage).                         *)
(***************************************************************************)
TriageCalled == call.op = "_triage_support_message"

\* case-insensitive substring match, as the claims word it
ContainsIgnoringCase(message, keyword) == In(keyword, lower(message))

MatchesGroup(message, g) ==
    \E k \in 1..Len(easy_rules[g].keywords) :
        ContainsIgnoringCase(message, easy_rules[g].keywords[k])

\* C14 as claimed: the first easy-topic group with a keyword in the message
\* gives its canned reply with escalate=false; otherwise escalate=true if the
\* message contains an escalation signal or is longer than 220 characters;
\* otherwise the generic reply with escalate=false; handled_by is "ai" and a
\* reply is present exactly when escalate=false.
C14_TriageDecision ==
    TriageCalled =>
        LET message == call.message
            result == call.result
            groups == {g \in 1..Len(easy_rules) : MatchesGroup(message, g)}
        IN  /\ result.handled_by = "ai"
            /\ ("reply" \in DOMAIN result) <=> ~result.escalate
            /\ IF groups # {}
               THEN /\ ~result.escalate
                    /\ \E g \in groups :
                           /\ \A h \in groups : g <= h
                           /\ result.reply = easy_rules[g].reply
               ELSE IF (\E signal \in Signals : ContainsIgnoringCase(message, signal))
                          \/ Len(message) > 220
               THEN result.escalate
               ELSE ~result.escalate /\ result.reply = GenericReply

\* C15 as claimed: every message containing one of the 14 escalation signals
\* is triaged with escalate=true, whatever its length and whatever else it
\* contains.
C15_SignalAlwaysEscalates ==
    (TriageCalled /\ \E signal \in Signals : ContainsIgnoringCase(call.message, signal))
        => call.result.escalate

(***************************************************************************)
(* flights/views.py, flights/models.py: support_contact_api and the        *)
(* SupportTicket table.  A request body is malformed, or JSON that is no   *)
(* object, or an object given as the record of its string fields.  A       *)
(* response is [status, ...] with the keys of the JSON answer.             *)
(***************************************************************************)
MaxTickets == 2         \* rows the SupportTicket table may hold (SpecSupport)

NameMaxLength == 120
EmailMaxLength == 254
SourcePageLength == 200

OPEN == "open"

\* payload.get(key) or ""
PayloadGet(payload, key) == IF key \in DOMAIN payload THEN payload[key] ELSE <<>>

\* the databases config/settings.py can be set up with
DatabaseVendors == {"sqlite", "postgresql"}

\* whether the INSERT of a row is accepted: PostgreSQL refuses a value longer
\* than its varchar column, SQLite does not check the length;
\* objects.create() runs no validator
InsertAccepted(row, vendor) ==
    \/ vendor = "sqlite"
    \/ Len(row.name) <= NameMaxLength /\ Len(row.email) <= EmailMaxLength

InvalidPayload == [status |-> 400, error |-> "Invalid payload."]
EmptyMessage == [status |-> 400, error |-> "Please enter your message."]
Unhandled == [status |-> 500]
Answer(escalated, reply) ==
    [status |-> 200, ok |-> TRUE, handled_by |-> "ai", escalated |-> escalated,
     reply |-> reply]

NeedsValidEmail ==
    "This needs a representative. Please share a valid email so our team can follow up with you soon."
NeedsEmail ==
    "This looks like a complex request. Please add your email and send again so a representative can contact you soon."
Forwarded ==
    "Thanks. A representative will get back to you soon. Your request has been forwarded to our support desk."

(***************************************************************************)
(* Specification SpecSupport: support requests served one after another.   *)
(***************************************************************************)
Escalating == <<"I", " ", "n", "e", "e", "d", " ", "a", " ", "r", "e", "p", "r", "e", "s", "e", "n", "t", "a", "t", "i", "v", "e", " ", "f", "o", "r", " ", "a", " ", "g", "r", "o", "u", "p", " ", "b", "o", "o", "k", "i", "n", "g", " ", "i", "s", "s", "u", "e", ".">>

SupportBodies ==
    {[kind |-> "malformed"], [kind |-> "array"]}
    \cup {[kind |-> "object", payload |-> payload] : payload \in
            {[source_page |-> <<"/">>],
             [message |-> <<" ", " ", " ">>],
             [message |-> <<"W", "h", "e", "n", " ", "d", "o", "e", "s", " ", "c", "h", "e", "c", "k", "-", "i", "n", " ", "o", "p", "e", "n", "?">>],
             [message |-> <<"h", "e", "l", "l", "o">>, email |-> GoodEmail],
             [name |-> <<"M", "i", "s", "a", "n">>, email |-> GoodEmail, message |-> Escalating,
              source_page |-> <<"/">>],
             [name |-> <<"M", "i", "s", "a", "n">>, message |-> Escalating, source_page |-> <<"/">>],
             [name |-> <<"M", "i", "s", "a", "n">>, email |-> <<" ", " ">>, message |-> Escalating],
             [name |-> <<"M", "i", "s", "a", "n">>, email |-> <<"m", "i", "s", "a", "n">>, message |-> Escalating],
             [name |-> <<"M", "i", "s", "a", "n">>, email |-> <<"m", "i", "s", "a", "n", "@", "e", "x", "a", "m", "p", "l", "e">>, message |-> Escalating],
             [name |-> <<" ", "M", "i", "s", "a", "n", " ">>, email |-> <<" ", "m", "i", "s", "a", "n", "@", "e", "x", "a", "m", "p", "l", "e", ".", "c", "o", "m", " ">>,
              message |-> <<" ">> \o Escalating, source_page |-> <<"/">>],
             [email |-> GoodEmail, message |-> Filler(MaxAutoLength + 1)],
             [email |-> GoodEmail, message |-> <<"r", "e", "p", "r", "e", "s", "e", "n", "t", "a", "t", "i", "v", "e", " ", "a", "b", "o", "u", "t", " ", "m", "y", " ", "b", "a", "g">>],
             [name |-> Filler(NameMaxLength + 1), email |-> GoodEmail,
              message |-> <<"c", "o", "m", "p", "l", "a", "i", "n", "t">>],
             [email |-> GoodEmail, message |-> <<"f", "r", "a", "u", "d">>,
              source_page |-> Filler(SourcePageLength + 1)]}}

InitSupport ==
    /\ trips = <<>>
    /\ bookings = <<>>
    /\ tickets = <<>>
    /\ procs = <<>>
    /\ now = 0
    /\ call = [op |-> "none"]

support_contact_api(body, vendor) ==
    /\ UNCHANGED <<trips, bookings, procs, now>>
    /\ LET respond(result) ==
               call' = [op |-> "support_contact_api", body |-> body,
                        vendor |-> vendor, result |-> result]
       IN  IF body.kind = "malformed"
           THEN respond(InvalidPayload) /\ UNCHANGED tickets
           ELSE IF body.kind # "object"
           THEN respond(Unhandled) /\ UNCHANGED tickets
           ELSE
           LET name == strip(PayloadGet(body.payload, "name"))
               email == strip(PayloadGet(body.payload, "email"))
               message == strip(PayloadGet(body.payload, "message"))
               source_page == strip(PayloadGet(body.payload, "source_page"))
               triage == _triage_support_message(message)
               row == [name |-> IF name # <<>> THEN name ELSE <<"G", "u", "e", "s", "t">>,
                       email |-> email,
                       message |-> message,
                       source_page |->
                           SubSeq(source_page, 1,
                                  IF Len(source_page) < SourcePageLength
                                  THEN Len(source_page) ELSE SourcePageLength),
                       status |-> OPEN]
           IN  IF message = <<>>
               THEN respond(EmptyMessage) /\ UNCHANGED tickets
               ELSE IF ~triage.escalate
               THEN respond(Answer(FALSE, triage.reply)) /\ UNCHANGED tickets
               ELSE IF email # <<>> /\ ~validate_email(email)
               THEN respond(Answer(FALSE, NeedsValidEmail)) /\ UNCHANGED tickets
               ELSE IF email = <<>>
               THEN respond(Answer(FALSE, NeedsEmail)) /\ UNCHANGED tickets
               ELSE /\ Len(tickets) < MaxTickets
                    /\ IF InsertAccepted(row, vendor)
                       THEN /\ tickets' = Append(tickets, row)
                            /\ respond(Answer(TRUE, Forwarded))
                       ELSE respond(Unhandled) /\ UNCHANGED tickets

NextSupport ==
    \E body \in SupportBodies, vendor \in DatabaseVendors :
        support_contact_api(body, vendor)

SpecSupport == InitSupport /\ [][NextSupport]_vars

(***************************************************************************)
(* Claims on support_contact_api (SpecSupport).                            *)
(***************************************************************************)
SupportCalled == call.op = "support_contact_api"

\* the message and email of a request body as the handler reads them
BodyMessage(body) ==
    IF body.kind = "object" THEN strip(PayloadGet(body.payload, "message")) ELSE <<>>
BodyEmail(body) ==
    IF body.kind = "object" THEN strip(PayloadGet(body.payload, "email")) ELSE <<>>

Escalates(body) ==
    BodyMessage(body) # <<>> /\ _triage_support_message(BodyMessage(body)).escalate

HasValidEmail(body) == BodyEmail(body) # <<>> /\ validate_email(BodyEmail(body))

\* C13 as claimed: a ticket is created if and only if the message is
\* non-empty, triage escalates and a non-empty valid email accompanies it;
\* the answer has escalated=true exactly when a ticket was created, exactly
\* one and Open; every other outcome leaves the tickets unchanged, a missing
\* or invalid email being answered 200 with escalated=false and malformed
\* JSON or an empty message 400.
C13_TicketIffEscalatedWithEmail ==
    [][ call'.op = "support_contact_api" =>
          LET body == call'.body
              result == call'.result
              created == tickets' # tickets
          IN  /\ created <=> (Escalates(body) /\ HasValidEmail(body))
              /\ created =>
                     /\ Len(tickets') = Len(tickets) + 1
                     /\ SubSeq(tickets', 1, Len(tickets)) = tickets
                     /\ tickets'[Len(tickets')].status = OPEN
              /\ created <=> (result.status = 200 /\ result.escalated)
              /\ (Escalates(body) /\ ~HasValidEmail(body)) =>
                     result.status = 200 /\ ~result.escalated
              /\ (body.kind = "malformed"
                      \/ (body.kind = "object" /\ BodyMessage(body) = <<>>)) =>
                     result.status = 400 ]_vars

(***************************************************************************)
(* Python float arithmetic for _live_position_for_trip: signed binary64    *)
(* values, sums, products and round().  A natural number of any size is a  *)
(* sequence of limbs in base LimbBase, most significant first, <<>> being  *)
(* zero.  A float is [sign, man, exp] of value sign * man * 2^exp with man *)
(* a natural of exactly MantissaBits bits, or man = <<>> for zero.         *)
(***************************************************************************)
NatTrim(a) ==
    IF \A i \in 1..Len(a) : a[i] = 0 THEN <<>>
    ELSE SubSeq(a, CHOOSE i \in 1..Len(a) :
                       a[i] # 0 /\ \A j \in 1..(i - 1) : a[j] = 0, Len(a))

NatPad(a, n) == [i \in 1..n |-> IF i <= n - Len(a) THEN 0 ELSE a[i - (n - Len(a))]]

\* a natural below 2^31 as limbs
NatFromInt(n) ==
    NatTrim(<<n \div (LimbBase * LimbBase), (n \div LimbBase) % LimbBase, n % LimbBase>>)

\* the value of a natural of at most two limbs
NatToInt(a) ==
    IF a = <<>> THEN 0
    ELSE IF Len(a) = 1 THEN a[1]
    ELSE a[Len(a) - 1] * LimbBase + a[Len(a)]

RECURSIVE NatAddFrom(_, _, _, _, _)
NatAddFrom(a, b, i, carry, acc) ==
    IF i = 0 THEN <<carry>> \o acc
    ELSE NatAddFrom(a, b, i - 1, (a[i] + b[i] + carry) \div LimbBase,
                    <<(a[i] + b[i] + carry) % LimbBase>> \o acc)

NatAdd(a, b) ==
    LET n == IF Len(a) > Len(b) THEN Len(a) ELSE Len(b)
    IN  NatTrim(NatAddFrom(NatPad(a, n), NatPad(b, n), n, 0, <<>>))

RECURSIVE NatSubFrom(_, _, _, _, _)
NatSubFrom(a, b, i, borrow, acc) ==
    IF i = 0 THEN acc
    ELSE LET d == a[i] - b[i] - borrow
         IN  NatSubFrom(a, b, i - 1, IF d < 0 THEN 1 ELSE 0,
                        <<IF d < 0 THEN d + LimbBase ELSE d>> \o acc)

\* a - b for a >= b
NatSub(a, b) == NatTrim(NatSubFrom(a, NatPad(b, Len(a)), Len(a), 0, <<>>))

\* a < b, both trimmed
NatLess(a, b) ==
    \/ Len(a) < Len(b)
    \/ /\ Len(a) = Len(b)
       /\ \E i \in 1..Len(a) : a[i] < b[i] /\ \A j \in 1..(i - 1) : a[j] = b[j]

RECURSIVE NatMulIntFrom(_, _, _, _, _)
NatMulIntFrom(a, c, i, carry, acc) ==
    IF i = 0 THEN <<carry \div LimbBase, carry % LimbBase>> \o acc
    ELSE NatMulIntFrom(a, c, i - 1, (c * a[i] + carry) \div LimbBase,
                       <<(c * a[i] + carry) % LimbBase>> \o acc)

\* a * c for an integer 0 <= c < 2^17
NatMulInt(a, c) == NatTrim(NatMulIntFrom(a, c, Len(a), 0, <<>>))

\* a * LimbBase^k
NatShiftLimbs(a, k) == IF a = <<>> THEN <<>> ELSE a \o [i \in 1..k |-> 0]

RECURSIVE NatMulFrom(_, _, _, _)
NatMulFrom(a, b, j, acc) ==
    IF j > Len(b) THEN acc
    ELSE NatMulFrom(a, b, j + 1,
                    NatAdd(NatShiftLimbs(acc, 1), NatMulInt(a, b[j])))

NatMul(a, b) == NatMulFrom(a, b, 1, <<>>)

\* a * 2^bits
NatShl(a, bits) == NatShiftLimbs(NatMulInt(a, Pow2(bits % LimbBits)), bits \div LimbBits)

\* a \div 2^bits
NatShr(a, bits) ==
    LET drop == bits \div LimbBits
        unit == Pow2(bits % LimbBits)
        kept == IF drop >= Len(a) THEN <<>> ELSE SubSeq(a, 1, Len(a) - drop)
    IN  NatTrim([i \in 1..Len(kept) |->
                    kept[i] \div unit
                        + (IF i = 1 THEN 0 ELSE (kept[i - 1] % unit) * (LimbBase \div unit))])

NatBitLength(a) ==
    IF a = <<>> THEN 0 ELSE LimbBits * (Len(a) - 1) + BitLength(a[1])

NatOdd(a) == a # <<>> /\ a[Len(a)] % 2 = 1

\* the natural nearest to (n + s) / 2^bits, ties to even, where s is 0 or,
\* with sticky, a fraction strictly between 0 and 1
NatRoundShr(n, bits, sticky) ==
    LET q == NatShr(n, bits)
        r == NatSub(n, NatShl(q, bits))
        half == NatShl(<<1>>, bits - 1)
        up == NatLess(half, r) \/ (r = half /\ sticky)
        tie == r = half /\ ~sticky
    IN  IF bits = 0 THEN n
        ELSE IF up \/ (tie /\ NatOdd(q)) THEN NatAdd(q, <<1>>) ELSE q

FloatZero == [sign |-> 1, man |-> <<>>, exp |-> 0]

\* the float nearest to sign * (n + s) * 2^e, ties to even
RoundNat(sign, n, e, sticky) ==
    LET len == NatBitLength(n)
        d == len - MantissaBits
        m == NatRoundShr(n, d, sticky)
    IN  IF n = <<>> THEN FloatZero
        ELSE IF d <= 0 THEN [sign |-> sign, man |-> NatShl(n, 0 - d), exp |-> e + d]
        ELSE IF NatBitLength(m) > MantissaBits
        THEN [sign |-> sign, man |-> NatShr(m, 1), exp |-> e + d + 1]
        ELSE [sign |-> sign, man |-> m, exp |-> e + d]

FloatNeg(x) == [x EXCEPT !.sign = 0 - x.sign]

\* x + y
FloatAdd(x, y) ==
    IF x.man = <<>> THEN y
    ELSE IF y.man = <<>> THEN x
    ELSE LET e == IF x.exp < y.exp THEN x.exp ELSE y.exp
             a == NatShl(x.man, x.exp - e)
             b == NatShl(y.man, y.exp - e)
         IN  IF x.sign = y.sign THEN RoundNat(x.sign, NatAdd(a, b), e, FALSE)
             ELSE IF a = b THEN FloatZero
             ELSE IF NatLess(a, b) THEN RoundNat(y.sign, NatSub(b, a), e, FALSE)
             ELSE RoundNat(x.sign, NatSub(a, b), e, FALSE)

\* x * y
FloatProduct(x, y) ==
    IF x.man = <<>> \/ y.man = <<>> THEN FloatZero
    ELSE RoundNat(x.sign * y.sign, NatMul(x.man, y.man), x.exp + y.exp, FALSE)

\* float(n) for an integer |n| < 2^31
FloatFromInt(n) ==
    IF n < 0 THEN RoundNat(0 - 1, NatFromInt(0 - n), 0, FALSE)
    ELSE RoundNat(1, NatFromInt(n), 0, FALSE)

QuotientLimbs == 6

\* float(n) / float(d) for integers |n| < 2^31 and 0 < d < 2^17; also the
\* value of the decimal literal n/d when d is a power of ten
FloatQuotient(n, d) ==
    LET a == IF n < 0 THEN 0 - n ELSE n
        frac == DivLimbs(a % d, d, QuotientLimbs, <<>>)
    IN  RoundNat(IF n < 0 THEN 0 - 1 ELSE 1,
                 NatTrim(NatPad(NatFromInt(a \div d), 3) \o frac.man),
                 0 - QuotientLimbs * LimbBits, frac.rem # 0)

\* int(x): truncation toward zero, |x| < 2^26
FloatTrunc(x) ==
    IF x.man = <<>> THEN 0
    ELSE IF x.exp >= 0 THEN x.sign * NatToInt(NatShl(x.man, x.exp))
    ELSE x.sign * NatToInt(NatShr(x.man, 0 - x.exp))

\* round(x, ndigits) as the integer number of units of 10^-ndigits, scale
\* being 10^ndigits: the exact value of the float rounded, ties to even
RoundUnits(x, scale) ==
    IF x.man = <<>> THEN 0
    ELSE IF x.exp >= 0
    THEN x.sign * NatToInt(NatShl(NatMulInt(x.man, scale), x.exp))
    ELSE x.sign * NatToInt(NatRoundShr(NatMulInt(x.man, scale), 0 - x.exp, FALSE))

\* round(x, ndigits) as a float
round(x, scale) == FloatQuotient(RoundUnits(x, scale), scale)

(***************************************************************************)
(* flights/views.py: AIRPORT_COORDS, _airport_coords_from_code and         *)
(* _live_position_for_trip.  An airport code is a sequence of characters;  *)
(* a coordinate of the table is written as its number of 1e-4 degrees, and *)
(* a rounded coordinate of the payload as its number of 1e-5 degrees, the  *)
(* decimals of the literal and of the JSON number.                         *)
(***************************************************************************)
CoordScale == 10000
PayloadScale == 100000

AIRPORT_COORDS ==
    LET items ==
            {<<<<"M", "S", "P">>, <<448848, 0 - 932223>>>>,
             <<<<"O", "R", "D">>, <<419742, 0 - 879073>>>>,
             <<<<"J", "F", "K">>, <<406413, 0 - 737781>>>>,
             <<<<"L", "H", "R">>, <<514700, 0 - 4543>>>>,
             <<<<"F", "R", "A">>, <<500379, 85622>>>>,
             <<<<"M", "A", "D">>, <<404893, 0 - 35676>>>>,
             <<<<"F", "C", "O">>, <<418003, 122389>>>>,
             <<<<"I", "S", "T">>, <<412753, 287519>>>>,
             <<<<"D", "O", "H">>, <<252731, 516081>>>>,
             <<<<"D", "X", "B">>, <<252532, 553657>>>>,
             <<<<"J", "E", "D">>, <<216702, 391525>>>>,
             <<<<"C", "A", "I">>, <<301219, 314056>>>>,
             <<<<"D", "E", "L">>, <<285562, 771000>>>>,
             <<<<"B", "O", "M">>, <<190896, 728656>>>>,
             <<<<"B", "K", "K">>, <<136900, 1007501>>>>,
             <<<<"C", "D", "G">>, <<490097, 25479>>>>,
             <<<<"S", "I", "N">>, <<13644, 1039915>>>>,
             <<<<"H", "K", "G">>, <<223080, 1139185>>>>,
             <<<<"N", "R", "T">>, <<357720, 1403929>>>>,
             <<<<"I", "C", "N">>, <<374602, 1264407>>>>,
             <<<<"S", "Y", "D">>, <<0 - 339399, 1511753>>>>,
             <<<<"J", "N", "B">>, <<0 - 261367, 282410>>>>,
             <<<<"G", "R", "U">>, <<0 - 234356, 0 - 464731>>>>}
    IN  [code \in {item[1] : item \in items} |->
            (CHOOSE item \in items : item[1] = code)[2]]

\* ord(ch)
ord(ch) ==
    IF ch \in Uppercase THEN 64 + CHOOSE i \in 1..26 : alphabet[i] = ch
    ELSE IF ch \in Digits THEN 21 + CHOOSE i \in 27..36 : alphabet[i] = ch
    ELSE IF ch \in Lowercase THEN 96 + CHOOSE i \in 1..26 : ascii_lowercase[i] = ch
    ELSE IF ch = "-" THEN 45
    ELSE 32

RECURSIVE SumOrd(_)
\* sum(ord(ch) for ch in code)
SumOrd(code) == IF code = <<>> THEN 0 ELSE ord(code[1]) + SumOrd(Tail(code))

\* the fallback point depends on the clock as well as on the code
_airport_coords_from_code_clock(code) ==
    IF code \in DOMAIN AIRPORT_COORDS
    THEN [lat |-> FloatQuotient(AIRPORT_COORDS[code][1], CoordScale),
          lon |-> FloatQuotient(AIRPORT_COORDS[code][2], CoordScale)]
    ELSE LET seed == SumOrd(code) + now
             lat == FloatAdd(FloatFromInt(20), FloatFromInt(seed % 45))
             lon == FloatAdd(FloatFromInt(0 - 120), FloatFromInt(seed % 70))
         IN  [lat |-> round(lat, CoordScale), lon |-> round(lon, CoordScale)]

_airport_coords_from_code(code) ==
    IF code \in DOMAIN AIRPORT_COORDS
    THEN [lat |-> FloatQuotient(AIRPORT_COORDS[code][1], CoordScale),
          lon |-> FloatQuotient(AIRPORT_COORDS[code][2], CoordScale)]
    ELSE LET seed == SumOrd(code)
             lat == FloatAdd(FloatFromInt(20), FloatFromInt(seed % 45))
             lon == FloatAdd(FloatFromInt(0 - 120), FloatFromInt(seed % 70))
         IN  [lat |-> round(lat, CoordScale), lon |-> round(lon, CoordScale)]

\* math.sin(progress * math.pi) for progress = p / 100.0, p = 0..100, as the
\* C library returns it
SinTable ==
    <<FloatZero,
      [sign |-> 1, man |-> <<1, 42, 1163, 4026, 6240>>, exp |-> 0 - 57],
      [sign |-> 1, man |-> <<1, 38, 646, 7940, 4985>>, exp |-> 0 - 56],
      [sign |-> 1, man |-> <<1, 4142, 7903, 8160, 6127>>, exp |-> 0 - 56],
      [sign |-> 1, man |-> <<1, 21, 6871, 3338, 7136>>, exp |-> 0 - 55],
      [sign |-> 1, man |-> <<1, 2060, 729, 7490, 4981>>, exp |-> 0 - 55],
      [sign |-> 1, man |-> <<1, 4088, 1817, 2075, 6776>>, exp |-> 0 - 55],
      [sign |-> 1, man |-> <<1, 6104, 1928, 7824, 8042>>, exp |-> 0 - 55],
      [sign |-> 1, man |-> <<1, 8106, 1150, 4320, 1942>>, exp |-> 0 - 55],
      [sign |-> 1, man |-> <<1, 949, 8032, 6304, 3598>>, exp |-> 0 - 54],
      [sign |-> 1, man |-> <<1, 1933, 7117, 6527, 2383>>, exp |-> 0 - 54],
      [sign |-> 1, man |-> <<1, 2907, 6260, 700, 5852>>, exp |-> 0 - 54],
      [sign |-> 1, man |-> <<1, 3870, 5778, 1349, 2328>>, exp |-> 0 - 54],
      [sign |-> 1, man |-> <<1, 4821, 6079, 999, 2498>>, exp |-> 0 - 54],
      [sign |-> 1, man |-> <<1, 5759, 7666, 2348, 413>>, exp |-> 0 - 54],
      [sign |-> 1, man |-> <<1, 6684, 2954, 6694, 7680>>, exp |-> 0 - 54],
      [sign |-> 1, man |-> <<1, 7594, 855, 1533, 2386>>, exp |-> 0 - 54],
      [sign |-> 1, man |-> <<1, 148, 1102, 2293, 740>>, exp |-> 0 - 53],
      [sign |-> 1, man |-> <<1, 586, 8079, 193, 2897>>, exp |-> 0 - 53],
      [sign |-> 1, man |-> <<1, 1017, 1425, 7552, 234>>, exp |-> 0 - 53],
      [sign |-> 1, man |-> <<1, 1438, 2241, 938, 6750>>, exp |-> 0 - 53],
      [sign |-> 1, man |-> <<1, 1849, 7120, 1773, 3082>>, exp |-> 0 - 53],
      [sign |-> 1, man |-> <<1, 2251, 4543, 5544, 443>>, exp |-> 0 - 53],
      [sign |-> 1, man |-> <<1, 2642, 7648, 517, 4844>>, exp |-> 0 - 53],
      [sign |-> 1, man |-> <<1, 3023, 5077, 2185, 19>>, exp |-> 0 - 53],
      [sign |-> 1, man |-> <<1, 3393, 1945, 5113, 7116>>, exp |-> 0 - 53],
      [sign |-> 1, man |-> <<1, 3751, 3456, 7829, 6166>>, exp |-> 0 - 53],
      [sign |-> 1, man |-> <<1, 4097, 6715, 4206, 1500>>, exp |-> 0 - 53],
      [sign |-> 1, man |-> <<1, 4432, 728, 6875, 3050>>, exp |-> 0 - 53],
      [sign |-> 1, man |-> <<1, 4753, 7370, 4332, 4593>>, exp |-> 0 - 53],
      [sign |-> 1, man |-> <<1, 5062, 7654, 7359, 5288>>, exp |-> 0 - 53],
      [sign |-> 1, man |-> <<1, 5358, 7275, 4522, 4361>>, exp |-> 0 - 53],
      [sign |-> 1, man |-> <<1, 5641, 3839, 6945, 3718>>, exp |-> 0 - 53],
      [sign |-> 1, man |-> <<1, 5910, 3255, 2118, 2620>>, exp |-> 0 - 53],
      [sign |-> 1, man |-> <<1, 6165, 3347, 5134, 90>>, exp |-> 0 - 53],
      [sign |-> 1, man |-> <<1, 6406, 2055, 2537, 3180>>, exp |-> 0 - 53],
      [sign |-> 1, man |-> <<1, 6632, 5623, 1760, 5516>>, exp |-> 0 - 53],
      [sign |-> 1, man |-> <<1, 6844, 4028, 5904, 6125>>, exp |-> 0 - 53],
      [sign |-> 1, man |-> <<1, 7041, 3751, 3962, 6884>>, exp |-> 0 - 53],
      [sign |-> 1, man |-> <<1, 7223, 3199, 1047, 8151>>, exp |-> 0 - 53],
      [sign |-> 1, man |-> <<1, 7390, 900, 6690, 5375>>, exp |-> 0 - 53],
      [sign |-> 1, man |-> <<1, 7541, 3700, 5769, 5489>>, exp |-> 0 - 53],
      [sign |-> 1, man |-> <<1, 7677, 2183, 2176, 7904>>, exp |-> 0 - 53],
      [sign |-> 1, man |-> <<1, 7797, 3442, 4133, 1271>>, exp |-> 0 - 53],
      [sign |-> 1, man |-> <<1, 7901, 6507, 296, 2558>>, exp |-> 0 - 53],
      [sign |-> 1, man |-> <<1, 7990, 2341, 383, 1116>>, exp |-> 0 - 53],
      [sign |-> 1, man |-> <<1, 8062, 6613, 1030, 6403>>, exp |-> 0 - 53],
      [sign |-> 1, man |-> <<1, 8119, 2352, 7964, 4956>>, exp |-> 0 - 53],
      [sign |-> 1, man |-> <<1, 8159, 5487, 7970, 1022>>, exp |-> 0 - 53],
      [sign |-> 1, man |-> <<1, 8183, 7499, 5352, 4230>>, exp |-> 0 - 53],
      [sign |-> 1, man |-> <<1, 0, 0, 0, 0>>, exp |-> 0 - 52],
      [sign |-> 1, man |-> <<1, 8183, 7499, 5352, 4230>>, exp |-> 0 - 53],
      [sign |-> 1, man |-> <<1, 8159, 5487, 7970, 1022>>, exp |-> 0 - 53],
      [sign |-> 1, man |-> <<1, 8119, 2352, 7964, 4956>>, exp |-> 0 - 53],
      [sign |-> 1, man |-> <<1, 8062, 6613, 1030, 6402>>, exp |-> 0 - 53],
      [sign |-> 1, man |-> <<1, 7990, 2341, 383, 1115>>, exp |-> 0 - 53],
      [sign |-> 1, man |-> <<1, 7901, 6507, 296, 2558>>, exp |-> 0 - 53],
      [sign |-> 1, man |-> <<1, 7797, 3442, 4133, 1272>>, exp |-> 0 - 53],
      [sign |-> 1, man |-> <<1, 7677, 2183, 2176, 7905>>, exp |-> 0 - 53],
      [sign |-> 1, man |-> <<1, 7541, 3700, 5769, 5490>>, exp |-> 0 - 53],
      [sign |-> 1, man |-> <<1, 7390, 900, 6690, 5376>>, exp |-> 0 - 53],
      [sign |-> 1, man |-> <<1, 7223, 3199, 1047, 8151>>, exp |-> 0 - 53],
      [sign |-> 1, man |-> <<1, 7041, 3751, 3962, 6884>>, exp |-> 0 - 53],
      [sign |-> 1, man |-> <<1, 6844, 4028, 5904, 6126>>, exp |-> 0 - 53],
      [sign |-> 1, man |-> <<1, 6632, 5623, 1760, 5515>>, exp |-> 0 - 53],
      [sign |-> 1, man |-> <<1, 6406, 2055, 2537, 3181>>, exp |-> 0 - 53],
      [sign |-> 1, man |-> <<1, 6165, 3347, 5134, 88>>, exp |-> 0 - 53],
      [sign |-> 1, man |-> <<1, 5910, 3255, 2118, 2620>>, exp |-> 0 - 53],
      [sign |-> 1, man |-> <<1, 5641, 3839, 6945, 3717>>, exp |-> 0 - 53],
      [sign |-> 1, man |-> <<1, 5358, 7275, 4522, 4363>>, exp |-> 0 - 53],
      [sign |-> 1, man |-> <<1, 5062, 7654, 7359, 5288>>, exp |-> 0 - 53],
      [sign |-> 1, man |-> <<1, 4753, 7370, 4332, 4595>>, exp |-> 0 - 53],
      [sign |-> 1, man |-> <<1, 4432, 728, 6875, 3050>>, exp |-> 0 - 53],
      [sign |-> 1, man |-> <<1, 4097, 6715, 4206, 1501>>, exp |-> 0 - 53],
      [sign |-> 1, man |-> <<1, 3751, 3456, 7829, 6165>>, exp |-> 0 - 53],
      [sign |-> 1, man |-> <<1, 3393, 1945, 5113, 7117>>, exp |-> 0 - 53],
      [sign |-> 1, man |-> <<1, 3023, 5077, 2185, 21>>, exp |-> 0 - 53],
      [sign |-> 1, man |-> <<1, 2642, 7648, 517, 4844>>, exp |-> 0 - 53],
      [sign |-> 1, man |-> <<1, 2251, 4543, 5544, 445>>, exp |-> 0 - 53],
      [sign |-> 1, man |-> <<1, 1849, 7120, 1773, 3082>>, exp |-> 0 - 53],
      [sign |-> 1, man |-> <<1, 1438, 2241, 938, 6751>>, exp |-> 0 - 53],
      [sign |-> 1, man |-> <<1, 1017, 1425, 7552, 233>>, exp |-> 0 - 53],
      [sign |-> 1, man |-> <<1, 586, 8079, 193, 2900>>, exp |-> 0 - 53],
      [sign |-> 1, man |-> <<1, 148, 1102, 2293, 741>>, exp |-> 0 - 53],
      [sign |-> 1, man |-> <<1, 7594, 855, 1533, 2391>>, exp |-> 0 - 54],
      [sign |-> 1, man |-> <<1, 6684, 2954, 6694, 7682>>, exp |-> 0 - 54],
      [sign |-> 1, man |-> <<1, 5759, 7666, 2348, 416>>, exp |-> 0 - 54],
      [sign |-> 1, man |-> <<1, 4821, 6079, 999, 2498>>, exp |-> 0 - 54],
      [sign |-> 1, man |-> <<1, 3870, 5778, 1349, 2332>>, exp |-> 0 - 54],
      [sign |-> 1, man |-> <<1, 2907, 6260, 700, 5851>>, exp |-> 0 - 54],
      [sign |-> 1, man |-> <<1, 1933, 7117, 6527, 2385>>, exp |-> 0 - 54],
      [sign |-> 1, man |-> <<1, 949, 8032, 6304, 3595>>, exp |-> 0 - 54],
      [sign |-> 1, man |-> <<1, 8106, 1150, 4320, 1943>>, exp |-> 0 - 55],
      [sign |-> 1, man |-> <<1, 6104, 1928, 7824, 8033>>, exp |-> 0 - 55],
      [sign |-> 1, man |-> <<1, 4088, 1817, 2075, 6791>>, exp |-> 0 - 55],
      [sign |-> 1, man |-> <<1, 2060, 729, 7490, 4985>>, exp |-> 0 - 55],
      [sign |-> 1, man |-> <<1, 21, 6871, 3338, 7146>>, exp |-> 0 - 55],
      [sign |-> 1, man |-> <<1, 4142, 7903, 8160, 6130>>, exp |-> 0 - 56],
      [sign |-> 1, man |-> <<1, 38, 646, 7940, 5000>>, exp |-> 0 - 56],
      [sign |-> 1, man |-> <<1, 42, 1163, 4026, 6232>>, exp |-> 0 - 57],
      [sign |-> 1, man |-> <<1, 844, 2444, 6306, 7175>>, exp |-> 0 - 105]>>

sin_progress_pi(p) == SinTable[p + 1]

\* the interpolation run from the destination back to the origin
Interpolate_from_end(start, end, progress) ==
    FloatAdd(end, FloatProduct(FloatAdd(start, FloatNeg(end)), progress))

\* start + (end - start) * progress
Interpolate(start, end, progress) ==
    FloatAdd(start, FloatProduct(FloatAdd(end, FloatNeg(start)), progress))

\* the numbers of the payload, from the coordinates of the two airports,
\* progress = _progress_percent / 100.0 and sin = math.sin(progress * math.pi)
LivePointBetween(start, end, progress, sin, in_air) ==
    [start_latitude |-> RoundUnits(start.lat, PayloadScale),
     start_longitude |-> RoundUnits(start.lon, PayloadScale),
     end_latitude |-> RoundUnits(end.lat, PayloadScale),
     end_longitude |-> RoundUnits(end.lon, PayloadScale),
     latitude |->
         RoundUnits(IF in_air
                    THEN FloatAdd(Interpolate(start.lat, end.lat, progress),
                                  FloatProduct(sin, FloatQuotient(15, 10)))
                    ELSE Interpolate(start.lat, end.lat, progress),
                    PayloadScale),
     longitude |-> RoundUnits(Interpolate(start.lon, end.lon, progress), PayloadScale),
     flight_altitude |-> FloatTrunc(FloatProduct(FloatFromInt(38000), sin)),
     flight_speed |-> 460 + FloatTrunc(FloatProduct(FloatFromInt(40), sin)),
     progress_percent |-> FloatTrunc(FloatProduct(progress, FloatFromInt(100)))]

\* the part of _live_position_for_trip that depends on the route, the
\* progress percentage p and whether the status is "In Air"
LivePoint(from_code, to_code, p, in_air) ==
    LivePointBetween(_airport_coords_from_code(from_code),
                     _airport_coords_from_code(to_code),
                     FloatQuotient(p, 100), sin_progress_pi(p), in_air)

\* the routes drawn: between two airports of the table, from an unknown
\* code to the southern hemisphere, and westward to an unknown code
PositionRoutes ==
    {<<<<"D", "O", "H">>, <<"L", "H", "R">>>>, <<<<"Z", "Z", "Z">>, <<"G", "R", "U">>>>, <<<<"S", "Y", "D">>, <<"Q", "1">>>>}

\* LivePoint tabulated once over the routes drawn
LivePointTable ==
    [route \in PositionRoutes |->
        [p \in 0..100 |->
            [in_air \in BOOLEAN |-> LivePoint(route[1], route[2], p, in_air)]]]

LivePointAt(from_code, to_code, p, in_air) ==
    LivePointTable[<<from_code, to_code>>][p][in_air]

\* altitude and speed follow the flight profile in every status but
\* Scheduled and Boarding
LivePayload_profile_on_ground(trip, t, status, point) ==
    [status |-> status,
     from_code |-> trip.from_code,
     to_code |-> trip.to_code,
     start_latitude |-> point.start_latitude,
     start_longitude |-> point.start_longitude,
     end_latitude |-> point.end_latitude,
     end_longitude |-> point.end_longitude,
     latitude |-> point.latitude,
     longitude |-> point.longitude,
     depart_at |-> _effective_schedule(trip).depart_at,
     arrive_at |-> _effective_schedule(trip).arrive_at,
     scheduled_depart_at |-> trip.depart_at,
     scheduled_arrive_at |-> trip.arrive_at,
     delay_minutes |-> trip.delay_minutes,
     altitude_ft |-> IF status \in {"Scheduled", "Boarding"} THEN 0
                     ELSE point.flight_altitude,
     ground_speed_kts |-> IF status \in {"Scheduled", "Boarding"} THEN 0
                          ELSE point.flight_speed,
     progress_percent |-> point.progress_percent,
     mode |-> "simulated_live",
     updated_at |-> t]

\* the dictionary _live_position_for_trip returns, status being the status
\* at t and point the numbers computed for it
LivePayload(trip, t, status, point) ==
    [status |-> status,
     from_code |-> trip.from_code,
     to_code |-> trip.to_code,
     start_latitude |-> point.start_latitude,
     start_longitude |-> point.start_longitude,
     end_latitude |-> point.end_latitude,
     end_longitude |-> point.end_longitude,
     latitude |-> point.latitude,
     longitude |-> point.longitude,
     depart_at |-> _effective_schedule(trip).depart_at,
     arrive_at |-> _effective_schedule(trip).arrive_at,
     scheduled_depart_at |-> trip.depart_at,
     scheduled_arrive_at |-> trip.arrive_at,
     delay_minutes |-> trip.delay_minutes,
     altitude_ft |-> IF status \in {"Scheduled", "Boarding"} THEN 0
                     ELSE IF status = "In Air" THEN point.flight_altitude
                     ELSE 0,
     ground_speed_kts |-> IF status \in {"Scheduled", "Boarding"} THEN 0
                          ELSE IF status = "In Air" THEN point.flight_speed
                          ELSE 0,
     progress_percent |-> point.progress_percent,
     mode |-> "simulated_live",
     updated_at |-> t]

_live_position_for_trip(trip, t) ==
    LivePayload(trip, t, _status_for_trip(trip, t),
                LivePointAt(trip.from_code, trip.to_code,
                            _progress_percent(trip, t),
                            _status_for_trip(trip, t) = "In Air"))

(***************************************************************************)
(* Specification SpecPosition: one trip on a drawn route, its position     *)
(* computed at increasing instants.  Trips satisfy Trip.clean.             *)
(***************************************************************************)
PositionDurations == {100, MaxDur}
PositionDelays == {0, 50}
PositionHorizon == TrackDepart + MaxDur + TrackDelay + 2

InitPosition ==
    /\ trips \in [{1} ->
                    {[depart_at |-> TrackDepart, arrive_at |-> TrackDepart + d,
                      delay_minutes |-> m, from_code |-> route[1],
                      to_code |-> route[2]] :
                        d \in PositionDurations, m \in PositionDelays,
                        route \in PositionRoutes}]
    /\ bookings = <<>>
    /\ tickets = <<>>
    /\ procs = <<>>
    /\ now = 0
    /\ call = [op |-> "none"]

LivePositionCall(dt) ==
    /\ now + dt <= PositionHorizon
    /\ now' = now + dt
    /\ call' = [op |-> "_live_position_for_trip", trip |-> 1,
                result |-> _live_position_for_trip(trips[1], now')]
    /\ UNCHANGED <<tickets, trips, bookings, procs>>

NextPosition == \E dt \in Steps : LivePositionCall(dt)

SpecPosition == InitPosition /\ [][NextPosition]_vars

(***************************************************************************)
(* Claims on _live_position_for_trip (SpecPosition).                       *)
(***************************************************************************)
PositionCalled == call.op = "_live_position_for_trip"

\* an airport's coordinates in 1e-5 degrees, from the table's decimals or,
\* for an unknown code, from the sum of its character codes
AirportUnits(code) ==
    IF code \in DOMAIN AIRPORT_COORDS
    THEN [lat |-> 10 * AIRPORT_COORDS[code][1], lon |-> 10 * AIRPORT_COORDS[code][2]]
    ELSE [lat |-> (20 + (SumOrd(code) % 45)) * PayloadScale,
          lon |-> ((SumOrd(code) % 70) - 120) * PayloadScale]

\* C16: whenever progress is 0 (in particular while now <= effective
\* departure, whatever the status) the latitude and longitude are the origin
\* airport's; whenever the status is Arrived, progress is 100, the
\* coordinates are the destination's and altitude and ground speed are 0.
C16_EndpointsOfTheTrack ==
    PositionCalled =>
        LET trip == trips[call.trip]
            result == call.result
            progress == _progress_percent(trip, now)
        IN  /\ now <= trip.depart_at + trip.delay_minutes => progress = 0
            /\ progress = 0 =>
                   /\ result.latitude = AirportUnits(trip.from_code).lat
                   /\ result.longitude = AirportUnits(trip.from_code).lon
            /\ result.status = "Arrived" =>
                   /\ progress = 100 /\ result.progress_percent = 100
                   /\ result.latitude = AirportUnits(trip.to_code).lat
                   /\ result.longitude = AirportUnits(trip.to_code).lon
                   /\ result.altitude_ft = 0 /\ result.ground_speed_kts = 0

\* C16 witness: an arrived trip from Doha shown at London Heathrow, on the
\* ground
C16_Witness ==
    /\ PositionCalled /\ call.result.status = "Arrived"
    /\ trips[call.trip].to_code = <<"L", "H", "R">>
    /\ call.result.latitude = 5147000 /\ call.result.longitude = 0 - 45430
    /\ call.result.latitude # call.result.start_latitude
    /\ call.result.altitude_ft = 0

\* C17: altitude and ground speed are 0 unless the status is In Air; In Air,
\* 0 <= altitude <= 38000 and 460 <= speed <= 500, both on one profile (the
\* speed above 460 is the altitude scaled by 40/38000) that reaches its peak
\* at mid-flight, rises before it and falls after it.
C17_FlightProfile ==
    /\ [](PositionCalled =>
            LET result == call.result
                progress == _progress_percent(trips[call.trip], now)
            IN  IF result.status # "In Air"
                THEN result.altitude_ft = 0 /\ result.ground_speed_kts = 0
                ELSE /\ 0 <= result.altitude_ft /\ result.altitude_ft <= 38000
                     /\ 460 <= result.ground_speed_kts
                     /\ result.ground_speed_kts <= 500
                     /\ result.ground_speed_kts - 460 = result.altitude_ft \div 950
                     /\ progress = 50 =>
                            result.altitude_ft = 38000
                                /\ result.ground_speed_kts = 500)
    /\ [][(/\ PositionCalled /\ call'.op = call.op
           /\ call.result.status = "In Air" /\ call'.result.status = "In Air") =>
              LET before == _progress_percent(trips[1], now)
                  after == _progress_percent(trips[1], now')
              IN  /\ after <= 50 =>
                         call.result.altitude_ft <= call'.result.altitude_ft
                  /\ before >= 50 =>
                         call.result.altitude_ft >= call'.result.altitude_ft]_vars

\* C17 witness: a delayed trip at mid-flight, at 38000 ft and 500 kts
C17_Witness ==
    /\ PositionCalled /\ call.result.status = "In Air"
    /\ trips[call.trip].delay_minutes > 0
    /\ _progress_percent(trips[call.trip], now) = 50
    /\ call.result.altitude_ft = 38000 /\ call.result.ground_speed_kts = 500

(***************************************************************************)
(* Specification SpecCoords: _airport_coords_from_code called on codes of  *)
(* the table and on unknown ones while the clock advances.                 *)
(***************************************************************************)
MaxCoordTicks == 3

\* the codes of the table, the empty code, a code of the table in lower
\* case, and every code of one or two characters over a small alphabet
CoordCodes ==
    DOMAIN AIRPORT_COORDS \cup {<<>>, <<"d", "o", "h">>}
        \cup {<<a>> : a \in {"A", "z", "9", "-"}}
        \cup {<<a, b>> : a, b \in {"A", "z", "9", "-"}}

InitCoords ==
    /\ trips = <<>>
    /\ bookings = <<>>
    /\ tickets = <<>>
    /\ procs = <<>>
    /\ now = 0
    /\ call = [op |-> "none"]

AirportCoordsCall(code) ==
    /\ call' = [op |-> "_airport_coords_from_code", code |-> code,
                result |-> _airport_coords_from_code(code)]
    /\ UNCHANGED <<tickets, trips, bookings, now, procs>>

CoordsTick ==
    /\ now < MaxCoordTicks
    /\ now' = now + 1
    /\ UNCHANGED <<tickets, trips, bookings, call, procs>>

NextCoords ==
    \/ \E code \in CoordCodes : AirportCoordsCall(code)
    \/ CoordsTick

SpecCoords == InitCoords /\ [][NextCoords]_vars

CoordsCalled == call.op = "_airport_coords_from_code"

\* C18: a code of the table returns its table entry; an unknown code returns
\* lat = 20 + seed % 45 and lon = -120 + seed % 70, seed being the sum of its
\* character codes, so 20 <= lat <= 64 and -120 <= lon <= -51; and two calls
\* with the same code return equal results.
C18_CoordsDeterministic ==
    /\ [](CoordsCalled =>
            LET code == call.code
                result == call.result
                seed == SumOrd(code)
            IN  IF code \in DOMAIN AIRPORT_COORDS
                THEN /\ RoundUnits(result.lat, CoordScale) = AIRPORT_COORDS[code][1]
                     /\ RoundUnits(result.lon, CoordScale) = AIRPORT_COORDS[code][2]
                ELSE /\ result.lat = FloatFromInt(20 + (seed % 45))
                     /\ result.lon = FloatFromInt((seed % 70) - 120)
                     /\ 20 * CoordScale <= RoundUnits(result.lat, CoordScale)
                     /\ RoundUnits(result.lat, CoordScale) <= 64 * CoordScale
                     /\ (0 - 120) * CoordScale <= RoundUnits(result.lon, CoordScale)
                     /\ RoundUnits(result.lon, CoordScale) <= (0 - 51) * CoordScale)
    /\ [][(CoordsCalled /\ call'.op = call.op /\ call'.code = call.code) =>
              call'.result = call.result]_vars

\* C18 witness: the unknown code "zz" (seed 244) asked for after the clock
\* has advanced, at 20 + 19 degrees north and -120 + 34 degrees east
C18_Witness ==
    /\ CoordsCalled /\ call.code = <<"z", "z">> /\ now > 0
    /\ call.code \notin DOMAIN AIRPORT_COORDS
    /\ RoundUnits(call.result.lat, CoordScale) = 39 * CoordScale
    /\ RoundUnits(call.result.lon, CoordScale) = (0 - 86) * CoordScale

(***************************************************************************)
(* flights/views.py: _duration_minutes and _ai_insights.  Instants are     *)
(* minutes counted from a midnight UTC (settings.TIME_ZONE), so that the   *)
(* hour of day of an instant is its number of whole hours modulo 24.       *)
(***************************************************************************)
max(a, b) == IF a >= b THEN a ELSE b
min(a, b) == IF a <= b THEN a ELSE b

\* datetime.hour
hour(t) == (t \div 60) % 24

_duration_minutes(trip) ==
    max(_effective_schedule(trip).arrive_at - _effective_schedule(trip).depart_at, 0)

RushHours == {6, 7, 8, 17, 18, 19, 20}

\* the delay bonus without its ceiling of 25
risk_score_uncapped(trip, t) ==
    LET duration == _duration_minutes(trip)
        depart_at == _effective_schedule(trip).depart_at
    IN  10
        + (IF duration > 210 THEN 15 ELSE 0)
        + (IF hour(depart_at) \in RushHours THEN 20 ELSE 0)
        + (IF depart_at - t < 2 * 60 THEN 15 ELSE 0)
        + (IF trip.delay_minutes > 0 THEN trip.delay_minutes \div 3 ELSE 0)

\* risk_score as _ai_insights accumulates it; hours_until_departure < 2 is
\* (depart_at - now) in minutes < 120
risk_score(trip, t) ==
    LET duration == _duration_minutes(trip)
        depart_at == _effective_schedule(trip).depart_at
    IN  10
        + (IF duration > 210 THEN 15 ELSE 0)
        + (IF hour(depart_at) \in RushHours THEN 20 ELSE 0)
        + (IF depart_at - t < 2 * 60 THEN 15 ELSE 0)
        + (IF trip.delay_minutes > 0 THEN min(25, trip.delay_minutes \div 3) ELSE 0)

RecommendHigh == "Send proactive SMS update and offer self-service rebooking options."
RecommendMedium == "Auto-alert gate changes and push check-in reminder now."
RecommendLow == "No intervention needed. Keep live tracking enabled."

\* the thresholds taken as strict bounds
risk_level_strict(score) ==
    IF score > 55 THEN [risk_level |-> "High", recommendation |-> RecommendHigh]
    ELSE IF score > 35 THEN [risk_level |-> "Medium", recommendation |-> RecommendMedium]
    ELSE [risk_level |-> "Low", recommendation |-> RecommendLow]

risk_level(score) ==
    IF score >= 55 THEN [risk_level |-> "High", recommendation |-> RecommendHigh]
    ELSE IF score >= 35 THEN [risk_level |-> "Medium", recommendation |-> RecommendMedium]
    ELSE [risk_level |-> "Low", recommendation |-> RecommendLow]

\* t is the timezone.now() the function reads
_ai_insights(trip, t) ==
    [duration_minutes |-> _duration_minutes(trip),
     status |-> _status_for_trip(trip, t),
     risk_score |-> risk_score(trip, t),
     risk_level |-> risk_level(risk_score(trip, t)).risk_level,
     recommendation |-> risk_level(risk_score(trip, t)).recommendation]

(***************************************************************************)
(* Specification SpecInsights: one trip, its insights computed at          *)
(* increasing instants from before the two-hour mark until after the       *)
(* effective departure.  Trips satisfy Trip.clean.                         *)
(***************************************************************************)
InsightBefore == 125    \* minutes before the base departure at the start
InsightAfter == 2       \* minutes after the effective departure at the end

InsightDeparts == {359, 360, 539, 1019, 1259}
InsightDurations == {100, 210, 211}
InsightDelays == {0, 1, 3, 45, 74, 75, 80}
InsightSteps == {0, 1, 60, 119}

InitInsights ==
    /\ trips \in [{1} ->
                    {[depart_at |-> dep, arrive_at |-> dep + d, delay_minutes |-> m] :
                        dep \in InsightDeparts, d \in InsightDurations,
                        m \in InsightDelays}]
    /\ bookings = <<>>
    /\ tickets = <<>>
    /\ procs = <<>>
    /\ now = trips[1].depart_at - InsightBefore
    /\ call = [op |-> "none"]

AiInsightsCall(dt) ==
    /\ now + dt <= _effective_schedule(trips[1]).depart_at + InsightAfter
    /\ now' = now + dt
    /\ call' = [op |-> "_ai_insights", trip |-> 1,
                result |-> _ai_insights(trips[1], now')]
    /\ UNCHANGED <<tickets, trips, bookings, procs>>

NextInsights == \E dt \in InsightSteps : AiInsightsCall(dt)

SpecInsights == InitInsights /\ [][NextInsights]_vars

InsightsCalled == call.op = "_ai_insights"

\* C19: risk_score is exactly 10, plus 15 if the trip lasts more than 210
\* minutes, plus 20 if the hour of day of the effective departure is one of
\* 6, 7, 8, 17, 18, 19, 20, plus 15 if fewer than 2 hours remain until the
\* effective departure (a departure in the past included), plus
\* min(25, delay_minutes // 3) if the trip is delayed; so 10 <= score <= 85.
C19_RiskScore ==
    InsightsCalled =>
        LET trip == trips[call.trip]
            departure == trip.depart_at + trip.delay_minutes
            long == trip.arrive_at - trip.depart_at > 210
            rush == \E h \in {6, 7, 8, 17, 18, 19, 20} :
                        /\ 60 * h <= departure % (24 * 60)
                        /\ departure % (24 * 60) < 60 * (h + 1)
            soon == departure - now < 120
            third == trip.delay_minutes \div 3
            bonus == IF trip.delay_minutes > 0
                     THEN (IF third > 25 THEN 25 ELSE third) ELSE 0
            score == call.result.risk_score
        IN  /\ score = 10 + (IF long THEN 15 ELSE 0) + (IF rush THEN 20 ELSE 0)
                          + (IF soon THEN 15 ELSE 0) + bonus
            /\ departure < now => soon
            /\ 10 <= score /\ score <= 85

\* C19 witness: a long trip delayed by 80 minutes into a rush hour, asked
\* for just before its departure, scores the maximum of 85
C19_Witness ==
    /\ InsightsCalled /\ call.result.risk_score = 85
    /\ trips[call.trip].delay_minutes = 80
    /\ now < trips[call.trip].depart_at + trips[call.trip].delay_minutes

\* C20: the level is High, with the SMS and rebooking recommendation, iff
\* risk_score >= 55; Medium, with the gate-change alert and check-in
\* reminder, iff 35 <= risk_score < 55; Low, with no intervention, iff
\* risk_score < 35; exactly one of the three holds.
C20_RiskLevel ==
    InsightsCalled =>
        LET score == call.result.risk_score
            level == call.result.risk_level
            advice == call.result.recommendation
            High == level = "High" /\ advice = RecommendHigh
            Medium == level = "Medium" /\ advice = RecommendMedium
            Low == level = "Low" /\ advice = RecommendLow
        IN  /\ High <=> score >= 55
            /\ Medium <=> (35 <= score /\ score < 55)
            /\ Low <=> score < 35
            /\ Cardinality({c \in {"H", "M", "L"} :
                              \/ c = "H" /\ High
                              \/ c = "M" /\ Medium
                              \/ c = "L" /\ Low}) = 1
            /\ level \in {"High", "Medium", "Low"}

\* C20 witness: a score of exactly 55 is High, reached by a short trip
\* delayed by 75 minutes into a rush hour, more than two hours ahead
C20_Witness ==
    /\ InsightsCalled /\ call.result.risk_score = 55
    /\ call.result.risk_level = "High"
    /\ call.result.recommendation = RecommendHigh
    /\ trips[call.trip].delay_minutes = 75

(***************************************************************************)
(* Claims relating the status and the progress of one trip over time       *)
(* (SpecSched).                                                            *)
(***************************************************************************)
\* the place of a status in the order Scheduled, Boarding, Delayed, In Air,
\* Arrived
StatusRank(status) == CHOOSE i \in 1..Len(StatusOrder) : StatusOrder[i] = status

\* C24: for a trip whose depart_at, arrive_at and delay_minutes do not
\* change, of two status calls at instants now1 <= now2 the later never
\* answers a status earlier in the order Scheduled, Boarding, Delayed,
\* In Air, Arrived; once Arrived, the trip stays Arrived.
C24_StatusNeverMovesBack ==
    [][(StatusCalled /\ StatusCalled' /\ trips' = trips) =>
          /\ now <= now'
          /\ StatusRank(call.result) <= StatusRank(call'.result)
          /\ call.result = "Arrived" => call'.result = "Arrived"]_vars

\* C24 witness: a trip delayed by 45 minutes or more, which goes from
\* Scheduled to Delayed without Boarding, seen Arrived
C24_Witness ==
    /\ StatusCalled /\ ValidTrip
    /\ CalledTrip.delay_minutes >= 45
    /\ now >= EffArrive
    /\ call.result = "Arrived"

\* C25: for a trip with arrive_at > depart_at, the status and the progress
\* computed at one instant agree: progress is 0 while Scheduled, Boarding or
\* Delayed, between 0 and 99 while In Air, and 100 exactly when Arrived.
C25_StatusAgreesWithProgress ==
    (StatusCalled /\ ValidTrip) =>
        LET progress == _progress_percent(CalledTrip, now)
        IN  /\ call.result \in {"Scheduled", "Boarding", "Delayed"} => progress = 0
            /\ call.result = "In Air" => (0 <= progress /\ progress <= 99)
            /\ (progress = 100) <=> (call.result = "Arrived")

\* C25 witness: a delayed trip one hundredth short of its arrival, In Air at
\* 99 percent
C25_Witness ==
    /\ StatusCalled /\ ValidTrip
    /\ CalledTrip.delay_minutes > 0
    /\ call.result = "In Air"
    /\ _progress_percent(CalledTrip, now) = 99

(***************************************************************************)
(* Claims on what the tracking endpoints show once the window is open      *)
(* (SpecTrack).                                                            *)
(***************************************************************************)
\* the status or the position endpoint answered 200
StatusOrPositionAnswered ==
    /\ call.op \in {"trip_status_api", "trip_position_api"}
    /\ call.result.status_code = 200

\* C26: whenever the status endpoint or the position endpoint answers 200,
\* the status in its payload is Delayed, Boarding, In Air or Arrived, never
\* Scheduled: the window opens with boarding, 45 minutes before the
\* effective departure.
C26_OpenNeverScheduled ==
    StatusOrPositionAnswered =>
        /\ call.result.payload[1].status \in {"Delayed", "Boarding", "In Air", "Arrived"}
        /\ call.result.payload[1].status # "Scheduled"

\* C26 witness: the position endpoint answers 200 at the very instant the
\* window opens, and the trip is Boarding
C26_Witness ==
    /\ StatusOrPositionAnswered
    /\ call.op = "trip_position_api"
    /\ now = _tracking_opens_at(trips[call.trip])
    /\ call.result.payload[1].status = "Boarding"

\* C27: once tracking has opened for a Confirmed booking it stays open: a
\* request with the booking's reference is answered 200 exactly while
\* _is_tracking_open holds for its trip, so no step of the system, a delay
\* edit by the administrators included, takes a trip with a Confirmed
\* booking from an open window back to a closed one, where the same
\* request would be answered tracking_not_open.
C27_OpenStaysOpen ==
    [][\A b \in DOMAIN bookings :
          (/\ bookings[b].status = CONFIRMED
           /\ bookings'[b].status = CONFIRMED
           /\ _is_tracking_open(trips[bookings[b].trip], now))
              => _is_tracking_open(trips'[bookings[b].trip], now')]_vars

\* C30: the progress_percent of the position payload, int(progress * 100)
\* with progress = _progress_percent(trip, now) / 100.0, equals the
\* progress_percent the status endpoint shows for the same trip and instant.
C30_PositionProgressIsStatusProgress ==
    PositionCalled =>
        call.result.progress_percent = _progress_percent(trips[call.trip], now)

(***************************************************************************)
(* flights/views.py: live_network_api, the map feed of a hub, beside       *)
(* trip_position_api with its full payload.  A request's query string is   *)
(* GET = [ref |-> values, from |-> values].                                *)
(***************************************************************************)
DEFAULT_HUB_CODE == <<"D", "O", "H">>

\* request.GET.get("from", DEFAULT_HUB_CODE)
GetFrom(GET) == IF GET.from = <<>> THEN DEFAULT_HUB_CODE ELSE GET.from[Len(GET.from)]

\* .order_by("depart_at") over the trips ids; trips of equal departure, whose
\* order the database chooses, are listed by id
RECURSIVE OrderByDepartAt(_)
OrderByDepartAt(ids) ==
    IF ids = {} THEN <<>>
    ELSE LET first == CHOOSE i \in ids : \A j \in ids :
                          \/ trips[i].depart_at < trips[j].depart_at
                          \/ trips[i].depart_at = trips[j].depart_at /\ i <= j
         IN  <<first>> \o OrderByDepartAt(ids \ {first})

\* the response of live_network_api: the position of every trip leaving the
\* hub, each listed here with the id of its trip
LiveNetworkResponse(GET, t) ==
    LET from_code == upper(strip(GetFrom(GET)))
        listed == OrderByDepartAt({i \in DOMAIN trips : trips[i].from_code = from_code})
    IN  [status_code |-> 200,
         hub_code |-> from_code,
         updated_at |-> t,
         flights |-> [k \in 1..Len(listed) |->
                         [trip_id |-> listed[k],
                          position |-> _live_position_for_trip(trips[listed[k]], t)]]]

(***************************************************************************)
(* Specification SpecNetwork: three trips, two of them leaving the default *)
(* hub, one Confirmed booking on trip 1, and clients calling the position  *)
(* endpoint and the network feed while the clock advances and the staff    *)
(* delays trips or changes the booking's status.                           *)
(***************************************************************************)
NetworkDur == 100

FromInputs == {<<>>, <<<<"d", "o", "h">>>>, <<<<" ", "S", "Y", "D">>>>, <<<<"X", "X", "X">>>>}

\* the position endpoint is asked with or without a reference, the network
\* feed with or without a hub, once with a reference it does not read
PositionRequests ==
    {[ref |-> r, from |-> <<>>] : r \in {<<>>, <<Candidate(1)>>, <<Candidate(2)>>}}

NetworkRequests ==
    {[ref |-> <<>>, from |-> f] : f \in FromInputs}
        \cup {[ref |-> <<Candidate(1)>>, from |-> <<>>]}

InitNetwork ==
    /\ \E d \in {0, TrackDelay} :
          trips = [i \in {1, 2, 3} |->
                      [depart_at |-> TrackDepart + 15 * (CASE i = 1 -> 1 [] i = 2 -> 0 [] OTHER -> 2),
                       arrive_at |-> TrackDepart + 15 * (CASE i = 1 -> 1 [] i = 2 -> 0 [] OTHER -> 2)
                                         + NetworkDur,
                       delay_minutes |-> IF i = 1 THEN d ELSE 0,
                       from_code |-> IF i = 3 THEN <<"S", "Y", "D">> ELSE DEFAULT_HUB_CODE,
                       to_code |-> IF i = 3 THEN <<"Q", "1">> ELSE <<"L", "H", "R">>]]
    /\ bookings = [b \in {1} |->
                      [trip |-> 1, reference |-> Candidate(1), status |-> CONFIRMED]]
    /\ procs = <<>>
    /\ tickets = <<>>
    /\ now = 0
    /\ call = [op |-> "none", trip |-> 0, GET |-> [ref |-> <<>>], result |-> 0]

\* trip_position_api answering the whole dictionary of _live_position_for_trip
trip_position_view(trip_id, GET) ==
    /\ call' = [op |-> "trip_position_api", trip |-> trip_id, GET |-> GET,
                result |-> TrackingResponse(GET, trip_id, now,
                               _live_position_for_trip(trips[trip_id], now))]
    /\ UNCHANGED <<tickets, trips, bookings, procs, now>>

live_network_api(GET) ==
    /\ call' = [op |-> "live_network_api", trip |-> 0, GET |-> GET,
                result |-> LiveNetworkResponse(GET, now)]
    /\ UNCHANGED <<tickets, trips, bookings, procs, now>>

NextNetwork ==
    \/ \E dt \in TrackSteps : Tick(dt)
    \/ \E i \in DOMAIN trips, GET \in PositionRequests : trip_position_view(i, GET)
    \/ \E GET \in NetworkRequests : live_network_api(GET)
    \/ apply_30_min_delay({1})
    \/ \E st \in {CONFIRMED, CANCELLED} : AdminSetBookingStatus(1, st)

SpecNetwork == InitNetwork /\ [][NextNetwork]_vars

\* the trips whose live position the last response carried
PositionsReturned ==
    IF call.op = "live_network_api"
    THEN {call.result.flights[k].trip_id : k \in DOMAIN call.result.flights}
    ELSE IF call.op = "trip_position_api" /\ call.result.status_code = 200
    THEN {call.trip}
    ELSE {}

\* the request names the reference of a Confirmed booking on trip i
HoldsConfirmedRef(GET, i) ==
    \E b \in DOMAIN bookings :
        /\ bookings[b].trip = i
        /\ bookings[b].status = CONFIRMED
        /\ GET.ref # <<>>
        /\ upper(strip(GetRef(GET))) = bookings[b].reference

\* C28: no endpoint returns the output of _live_position_for_trip for a trip
\* to a request that lacks the reference of a Confirmed booking on that trip,
\* or before the trip's effective departure - 45 minutes.
C28_PositionOnlyToBookingHolders ==
    \A i \in PositionsReturned :
        /\ HoldsConfirmedRef(call.GET, i)
        /\ now >= trips[i].depart_at + trips[i].delay_minutes - TRACKING_UNLOCK_MINUTES

(***************************************************************************)
(* flights/models.py and flights/admin.py: Trip.clean, the admin forms     *)
(* that run it, the admin actions and direct creation that do not, the     *)
(* live-status column and the live-status filter of the trip list.         *)
(* A form field holding a datetime is <<>> when empty and <<v>> otherwise. *)
(***************************************************************************)
WeekMinutes == 7 * 24 * 60

\* Trip.clean accepts everything, zero and negative durations included
Trip_clean_accepts_all(depart_at, arrive_at) == TRUE

\* Trip.clean: TRUE when it returns, FALSE when it raises ValidationError
Trip_clean(depart_at, arrive_at) ==
    IF depart_at = <<>> \/ arrive_at = <<>> THEN TRUE
    ELSE ~(arrive_at[1] <= depart_at[1])

\* a model form of Trip (add and change views, a row of the editable list, a
\* row of TripInline): a required field left empty or a delay_minutes under
\* its minimum is a field error; otherwise Trip.clean, run by the form's
\* _post_clean, decides
TripFormResult(data) ==
    IF data.depart_at = <<>> \/ data.arrive_at = <<>> \/ data.delay_minutes < 0
    THEN "field_error"
    ELSE IF ~Trip_clean(data.depart_at, data.arrive_at) THEN "arrive_at_error"
    ELSE "saved"

TripFormIsValid(data) == TripFormResult(data) = "saved"

\* the row a valid form saves
TripFromForm(data) ==
    [depart_at |-> data.depart_at[1], arrive_at |-> data.arrive_at[1],
     delay_minutes |-> data.delay_minutes]

\* the form a row is displayed as
FormOfTrip(trip) ==
    [depart_at |-> <<trip.depart_at>>, arrive_at |-> <<trip.arrive_at>>,
     delay_minutes |-> trip.delay_minutes]

\* Trip.objects.create(flight, depart_at, arrive_at): no validator runs
TripCreated(depart_at, arrive_at) ==
    [depart_at |-> depart_at, arrive_at |-> arrive_at, delay_minutes |-> 0]

\* admin.py _trip_live_status, the clock read being t
_trip_live_status(trip, t) ==
    LET delayed_depart == trip.depart_at + trip.delay_minutes
        delayed_arrive == trip.arrive_at + trip.delay_minutes
        boarding_open == delayed_depart - 45
    IN  IF trip.delay_minutes > 0 /\ trip.depart_at <= t /\ t < delayed_depart
            THEN "Delayed"
        ELSE IF t < boarding_open THEN "Scheduled"
        ELSE IF boarding_open <= t /\ t < delayed_depart THEN "Boarding"
        ELSE IF delayed_depart <= t /\ t < delayed_arrive THEN "In Air"
        ELSE "Arrived"

\* TripLiveStatusFilter.lookups
LiveStatusLookups ==
    [scheduled |-> "Scheduled", boarding |-> "Boarding", in_air |-> "In Air",
     arrived |-> "Arrived"]

\* TripLiveStatusFilter.queryset: does the trip pass the filter at t
TripLiveStatusFilter(value, trip, t) ==
    LET boarding_cutoff == t + 45
    IN  IF value = "scheduled" THEN trip.depart_at > boarding_cutoff
        ELSE IF value = "boarding"
            THEN trip.depart_at <= boarding_cutoff /\ trip.depart_at > t
        ELSE IF value = "in_air" THEN trip.depart_at <= t /\ trip.arrive_at > t
        ELSE IF value = "arrived" THEN trip.arrive_at <= t
        ELSE TRUE

(***************************************************************************)
(* Specification SpecAdmin: the trip table from the seed migration on,     *)
(* under the admin's forms and actions, direct creation with the values    *)
(* the tests use, the clock, and the filtered trip list.                   *)
(***************************************************************************)
MaxTrips == 2
AdminHorizon == 180
AdminStep == 45

\* the destinations of the seed migration drawn, by their index
SeedIndexes == {1, 6}

\* (dep_delta_min, duration_min) of the tests' _create_trip drawn
TestTrips == {<<180, 70>>, <<0 - 10, 120>>}

\* the forms posted: a valid trip, undelayed and delayed, an arrival equal to
\* the departure and one before it, each required field left empty, and a
\* negative delay
TripForms ==
    {[depart_at |-> d, arrive_at |-> <<120>>, delay_minutes |-> m] :
         d \in {<<>>, <<60>>}, m \in {0 - 5, 0, 120}}
      \cup {[depart_at |-> <<60>>, arrive_at |-> a, delay_minutes |-> 0] :
                a \in {<<>>, <<30>>, <<60>>}}

\* seed_hub_routes for one destination, at the instant of the migration
SeedTrip(index, t) ==
    TripCreated(t + (index * 35) - 180,
                t + (index * 35) - 180 + 150 + ((index % 6) * 45))

InitAdmin ==
    /\ \E index \in SeedIndexes : trips = <<SeedTrip(index, 0)>>
    /\ bookings = <<>>
    /\ tickets = <<>>
    /\ procs = <<>>
    /\ now = 0
    /\ call = [op |-> "migrate", result |-> "created"]

AdminTick ==
    /\ now + AdminStep <= AdminHorizon
    /\ now' = now + AdminStep
    /\ call' = [op |-> "tick", result |-> "none"]
    /\ UNCHANGED <<tickets, trips, bookings, procs>>

\* TripAdmin add view
TripAdminAdd(data) ==
    /\ Len(trips) < MaxTrips
    /\ IF TripFormIsValid(data)
       THEN /\ trips' = Append(trips, TripFromForm(data))
            /\ call' = [op |-> "add_view", result |-> "saved"]
       ELSE /\ trips' = trips
            /\ call' = [op |-> "add_view", result |-> TripFormResult(data)]
    /\ UNCHANGED <<tickets, bookings, procs, now>>

\* TripAdmin change view of trip i
TripAdminChange(i, data) ==
    /\ IF TripFormIsValid(data)
       THEN /\ trips' = [trips EXCEPT ![i] = TripFromForm(data)]
            /\ call' = [op |-> "change_view", result |-> "saved"]
       ELSE /\ trips' = trips
            /\ call' = [op |-> "change_view", result |-> TripFormResult(data)]
    /\ UNCHANGED <<tickets, bookings, procs, now>>

\* the editable trip list (list_editable): row i is edited, the other rows
\* are posted as displayed, and the rows are saved only if every form of the
\* formset is valid
TripAdminListEdit(i, data) ==
    /\ LET posted == [j \in DOMAIN trips |->
                         IF j = i THEN data ELSE FormOfTrip(trips[j])]
       IN  IF \A j \in DOMAIN trips : TripFormIsValid(posted[j])
           THEN /\ trips' = [j \in DOMAIN trips |-> TripFromForm(posted[j])]
                /\ call' = [op |-> "changelist_edit", result |-> "saved"]
           ELSE /\ trips' = trips
                /\ call' = [op |-> "changelist_edit",
                            result |-> IF TripFormIsValid(data) THEN "arrive_at_error"
                                       ELSE TripFormResult(data)]
    /\ UNCHANGED <<tickets, bookings, procs, now>>

\* FlightAdmin with TripInline: the existing row i is edited, or, for i one
\* past the last row, the extra row is filled
TripInlineSave(i, data) ==
    /\ i <= MaxTrips
    /\ IF TripFormIsValid(data)
       THEN /\ trips' = IF i \in DOMAIN trips
                        THEN [trips EXCEPT ![i] = TripFromForm(data)]
                        ELSE Append(trips, TripFromForm(data))
            /\ call' = [op |-> "inline", result |-> "saved"]
       ELSE /\ trips' = trips
            /\ call' = [op |-> "inline", result |-> TripFormResult(data)]
    /\ UNCHANGED <<tickets, bookings, procs, now>>

\* the copies of the selected trips, in the order of their ids
RECURSIVE OneWeekLater(_, _)
OneWeekLater(rows, selected) ==
    IF selected = {} THEN <<>>
    ELSE LET i == CHOOSE j \in selected : \A k \in selected : j <= k
         IN  <<TripCreated(rows[i].depart_at + WeekMinutes,
                           rows[i].arrive_at + WeekMinutes)>>
                 \o OneWeekLater(rows, selected \ {i})

\* TripAdmin action 'Duplicate selected trips +7 days'
duplicate_one_week_later(selected) ==
    /\ Len(trips) + Cardinality(selected) <= MaxTrips
    /\ trips' = trips \o OneWeekLater(trips, selected)
    /\ call' = [op |-> "duplicate_one_week_later", result |-> "created"]
    /\ UNCHANGED <<tickets, bookings, procs, now>>

\* TripAdmin action 'Apply 30-minute delay to selected trips'
AdminApplyDelay(selected) ==
    /\ trips' = [i \in DOMAIN trips |->
                    IF i \in selected THEN [trips[i] EXCEPT !.delay_minutes = 30]
                    ELSE trips[i]]
    /\ call' = [op |-> "apply_30_min_delay", result |-> "updated"]
    /\ UNCHANGED <<tickets, bookings, procs, now>>

\* Trip.objects.create as tests.py _create_trip calls it
_create_trip(dep_delta_min, duration_min) ==
    /\ Len(trips) < MaxTrips
    /\ trips' = Append(trips, TripCreated(now + dep_delta_min,
                                          now + dep_delta_min + duration_min))
    /\ call' = [op |-> "_create_trip", result |-> "created"]
    /\ UNCHANGED <<tickets, bookings, procs, now>>

\* the trip list under ?live_status=value: the rows the filter keeps, and
\* the 'Live status' column of every trip at the same instant
TripChangelist(value) ==
    /\ call' = [op |-> "changelist", value |-> value,
                result |-> {i \in DOMAIN trips :
                               TripLiveStatusFilter(value, trips[i], now)},
                live_status |-> [i \in DOMAIN trips |->
                                    _trip_live_status(trips[i], now)]]
    /\ UNCHANGED <<tickets, trips, bookings, procs, now>>

NextAdmin ==
    \/ AdminTick
    \/ \E data \in TripForms : TripAdminAdd(data)
    \/ \E i \in DOMAIN trips, data \in TripForms : TripAdminChange(i, data)
    \/ \E i \in DOMAIN trips, data \in TripForms : TripAdminListEdit(i, data)
    \/ \E i \in 1..(Len(trips) + 1), data \in TripForms : TripInlineSave(i, data)
    \/ \E selected \in (SUBSET DOMAIN trips) \ {{}} : duplicate_one_week_later(selected)
    \/ \E selected \in (SUBSET DOMAIN trips) \ {{}} : AdminApplyDelay(selected)
    \/ \E pair \in TestTrips : _create_trip(pair[1], pair[2])
    \/ \E value \in DOMAIN LiveStatusLookups : TripChangelist(value)

SpecAdmin == InitAdmin /\ [][NextAdmin]_vars

\* C21: in every reachable state every trip has arrive_at > depart_at: the
\* admin's add and change forms, the editable list and the inline reject a
\* zero or negative duration, and 'duplicate +7 days', the 30 minute delay
\* and direct creation with the seed's and the tests' values cannot make one.
C21_ArrivalAfterDeparture ==
    \A i \in DOMAIN trips : trips[i].arrive_at > trips[i].depart_at

\* C21 witness: a row of the editable list whose arrival is not after its
\* departure was refused by Trip.clean while the table holds a duplicated
\* trip, a week after its original
C21_Witness ==
    /\ call.op = "changelist_edit"
    /\ call.result = "arrive_at_error"
    /\ \E i, j \in DOMAIN trips :
          /\ trips[j].depart_at = trips[i].depart_at + WeekMinutes
          /\ trips[j].arrive_at = trips[i].arrive_at + WeekMinutes

\* C29: the live-status filter keeps a trip under scheduled, boarding,
\* in_air or arrived exactly when the 'Live status' column shows Scheduled,
\* Boarding, In Air or Arrived for it, for every trip, delayed or not, and
\* every instant.
C29_FilterAgreesWithColumn ==
    call.op = "changelist" =>
        \A i \in DOMAIN trips :
            (i \in call.result) <=>
                (call.live_status[i] = LiveStatusLookups[call.value])

(***************************************************************************)
(* flights/views.py: _generate_ai_message and trip_ai_api with the         *)
(* provider in the loop.  What the outbound request does is drawn from     *)
(* ProviderOutcomes: an exception raised by urlopen, resp.read, decode or  *)
(* json.loads, named by its class, or the JSON value parsed.  A JSON value *)
(* is [type, text, output_text]: text for a string, output_text for an     *)
(* object, <<>> when the member is absent and <<value>> otherwise.         *)
(***************************************************************************)
\* the classes each exception drawn is an instance of
ExceptionBases ==
    [URLError |-> {"URLError", "OSError", "Exception"},
     HTTPError |-> {"HTTPError", "URLError", "OSError", "Exception"},
     TimeoutError |-> {"TimeoutError", "OSError", "Exception"},
     JSONDecodeError |-> {"JSONDecodeError", "ValueError", "Exception"},
     UnicodeDecodeError |-> {"UnicodeDecodeError", "UnicodeError", "ValueError", "Exception"},
     RemoteDisconnected |-> {"RemoteDisconnected", "ConnectionResetError", "ConnectionError",
                             "OSError", "BadStatusLine", "HTTPException", "Exception"},
     IncompleteRead |-> {"IncompleteRead", "HTTPException", "Exception"}]

\* except (error.URLError, error.HTTPError, TimeoutError, ValueError)
AiExceptClause == {"URLError", "HTTPError", "TimeoutError", "ValueError"}

JsonNull == [type |-> "null", text |-> <<>>, output_text |-> <<>>]
JsonString(text) == [type |-> "string", text |-> text, output_text |-> <<>>]
JsonArray == [type |-> "array", text |-> <<>>, output_text |-> <<>>]
JsonObject(output_text) == [type |-> "object", text |-> <<>>, output_text |-> output_text]

\* Python's truth value of a parsed JSON value (the array drawn has elements)
Truthy(value) ==
    CASE value.type = "null" -> FALSE
      [] value.type = "string" -> value.text # <<>>
      [] OTHER -> TRUE

Raised(exception) == [raised |-> <<exception>>, message |-> <<>>, source |-> ""]
Returned(message, source) == [raised |-> <<>>, message |-> message, source |-> source]

\* _build_fallback_ai_message, by what it is built from
FallbackMessage(trip, t) ==
    <<"Flight", "is", "currently", _status_for_trip(trip, t)>>

\* _generate_ai_message from the try statement on: the except clause, then
\* body.get("output_text"), the test of text, and text.strip()
AfterRequest(trip, t, outcome) ==
    IF outcome.kind = "raise"
    THEN IF ExceptionBases[outcome.exception] \cap AiExceptClause # {}
         THEN Returned(FallbackMessage(trip, t), "fallback")
         ELSE Raised(outcome.exception)
    ELSE IF outcome.json.type # "object" THEN Raised("AttributeError")
    ELSE IF outcome.json.output_text = <<>> THEN Returned(FallbackMessage(trip, t), "fallback")
    ELSE IF ~Truthy(outcome.json.output_text[1])
        THEN Returned(FallbackMessage(trip, t), "fallback")
    ELSE IF outcome.json.output_text[1].type # "string" THEN Raised("AttributeError")
    ELSE Returned(strip(outcome.json.output_text[1].text), "openai")

\* api_key is os.environ.get("OPENAI_API_KEY"): <<>> when unset
_generate_ai_message(trip, t, api_key, outcome) ==
    IF api_key = <<>> \/ api_key[1] = <<>>
    THEN Returned(FallbackMessage(trip, t), "fallback")
    ELSE AfterRequest(trip, t, outcome)

\* the answer of trip_ai_api once both guards have passed; an exception that
\* leaves the view is answered 500 by the framework
AiAnswer(trip_id, t, api_key, outcome) ==
    LET generated == _generate_ai_message(trips[trip_id], t, api_key, outcome)
    IN  IF generated.raised # <<>>
        THEN [status_code |-> 500, code |-> generated.raised[1], opens_at |-> <<>>,
              payload |-> <<>>]
        ELSE Ok200([trip_id |-> trip_id, source |-> generated.source,
                    message |-> generated.message])

AiResponse(GET, trip_id, t, api_key, outcome) ==
    IF _authorized_booking_for_trip(GET, trip_id) = 0 THEN BookingRequired
    ELSE IF ~_is_tracking_open(trips[trip_id], t) THEN TrackingNotOpen(trips[trip_id])
    ELSE AiAnswer(trip_id, t, api_key, outcome)

(***************************************************************************)
(* Specification SpecAi: one trip with a Confirmed booking, the AI         *)
(* endpoint called under each environment and provider outcome, and the    *)
(* clock.                                                                  *)
(***************************************************************************)
ApiKeys == {<<>>, <<<<>>>>, <<<<"s", "k">>>>}

ProviderOutcomes ==
    {[kind |-> "raise", exception |-> e, json |-> JsonNull] : e \in DOMAIN ExceptionBases}
      \cup {[kind |-> "json", exception |-> "", json |-> v] :
               v \in {JsonNull, JsonArray, JsonString(<<"o", "k">>),
                      JsonObject(<<>>), JsonObject(<<JsonNull>>),
                      JsonObject(<<JsonString(<<>>)>>),
                      JsonObject(<<JsonString(<<" ", "O", "n", " ">>)>>),
                      JsonObject(<<JsonArray>>)}}

InitAi ==
    /\ \E d \in {0, TrackDelay} :
          trips = [i \in {1} |-> [depart_at |-> TrackDepart,
                                  arrive_at |-> TrackDepart + TrackDur,
                                  delay_minutes |-> d]]
    /\ bookings = [b \in {1} |->
                      [trip |-> 1, reference |-> Candidate(1), status |-> CONFIRMED]]
    /\ procs = <<>>
    /\ tickets = <<>>
    /\ now = 0
    /\ call = [op |-> "none", trip |-> 0, GET |-> [ref |-> <<>>], result |-> 0]

trip_ai_view(trip_id, GET, api_key, outcome) ==
    /\ call' = [op |-> "trip_ai_api", trip |-> trip_id, GET |-> GET,
                api_key |-> api_key, outcome |-> outcome,
                result |-> AiResponse(GET, trip_id, now, api_key, outcome)]
    /\ UNCHANGED <<tickets, trips, bookings, procs, now>>

NextAi ==
    \/ \E dt \in TrackSteps : Tick(dt)
    \/ \E GET \in {[ref |-> r] : r \in {<<>>, <<Candidate(1)>>}},
          api_key \in ApiKeys, outcome \in ProviderOutcomes :
           trip_ai_view(1, GET, api_key, outcome)

SpecAi == InitAi /\ [][NextAi]_vars

\* the provider was asked and answered an object whose output_text is a
\* non-empty string
ProviderGaveText(api_key, outcome) ==
    /\ api_key # <<>> /\ api_key[1] # <<>>
    /\ outcome.kind = "json"
    /\ outcome.json.type = "object"
    /\ outcome.json.output_text # <<>>
    /\ outcome.json.output_text[1].type = "string"
    /\ outcome.json.output_text[1].text # <<>>

\* C22: _generate_ai_message never raises, so trip_ai_api, asked with the
\* reference of a Confirmed booking inside the tracking window, always
\* answers 200; the source is "openai" exactly when the provider returned a
\* non-empty output_text, and otherwise (no key, timeout, network or HTTP
\* failure, malformed or empty payload) the heuristic message is returned
\* with source "fallback".
C22_AiNeverFails ==
    (/\ call.op = "trip_ai_api"
     /\ _authorized_booking_for_trip(call.GET, call.trip) # 0
     /\ _is_tracking_open(trips[call.trip], now)) =>
        /\ call.result.status_code = 200
        /\ call.result.payload # <<>>
        /\ IF ProviderGaveText(call.api_key, call.outcome)
           THEN call.result.payload[1].source = "openai"
           ELSE /\ call.result.payload[1].source = "fallback"
                /\ call.result.payload[1].message = FallbackMessage(trips[call.trip], now)

(***************************************************************************)
(* flights/views.py: search_trips, the list of trips of a route and the    *)
(* trip it recommends.  A request's query string is                        *)
(* GET = [from |-> values, to |-> values].                                 *)
(***************************************************************************)
\* request.GET.get(name, "") for the values given for the name
GetOrEmpty(values) == IF values = <<>> THEN <<>> ELSE values[Len(values)]

\* from_code after the default hub rule: with neither code given, the hub
\* when a trip leaves it
SearchFromCode(GET) ==
    IF /\ GetOrEmpty(GET.from) = <<>>
       /\ GetOrEmpty(GET.to) = <<>>
       /\ \E i \in DOMAIN trips : trips[i].from_code = DEFAULT_HUB_CODE
    THEN DEFAULT_HUB_CODE
    ELSE GetOrEmpty(GET.from)

\* list(trips.order_by("depart_at")) after the two filters
SearchListed(GET) ==
    OrderByDepartAt({i \in DOMAIN trips :
        /\ SearchFromCode(GET) # <<>> => trips[i].from_code = SearchFromCode(GET)
        /\ GetOrEmpty(GET.to) # <<>> => trips[i].to_code = GetOrEmpty(GET.to)})

\* the key is (t.depart_at, _duration_minutes(t)): the soonest trip wins
RecommendKeyLess_soonest(a, b) ==
    \/ a.depart_at < b.depart_at
    \/ a.depart_at = b.depart_at /\ _duration_minutes(a) < _duration_minutes(b)

\* the order of the keys (_duration_minutes(t), t.depart_at)
RecommendKeyLess(a, b) ==
    \/ _duration_minutes(a) < _duration_minutes(b)
    \/ _duration_minutes(a) = _duration_minutes(b) /\ a.depart_at < b.depart_at

\* min(listed, key=...): the first trip of the list no other trip's key is
\* less than; <<>> for None
RecommendedTrip(listed) ==
    IF listed = <<>> THEN <<>>
    ELSE LET lowest == {k \in DOMAIN listed : \A j \in DOMAIN listed :
                           ~RecommendKeyLess(trips[listed[j]], trips[listed[k]])}
         IN  <<listed[CHOOSE k \in lowest : \A j \in lowest : k <= j]>>

(***************************************************************************)
(* Specification SpecSearch: three trips drawn over two routes, searched   *)
(* by origin and destination while the staff delays them.                  *)
(***************************************************************************)
SearchDurations == {70, 120}
SearchDeparts == {60, 180}

SearchTrips ==
    {[depart_at |-> d, arrive_at |-> d + m, delay_minutes |-> 0,
      from_code |-> route[1], to_code |-> route[2]] :
        d \in SearchDeparts, m \in SearchDurations,
        route \in {<<DEFAULT_HUB_CODE, <<"L", "H", "R">>>>,
                   <<<<"S", "Y", "D">>, <<"L", "H", "R">>>>}}

SearchRequests ==
    {[from |-> f, to |-> t] :
        f \in {<<>>, <<DEFAULT_HUB_CODE>>, <<<<"S", "Y", "D">>>>, <<<<"d", "o", "h">>>>},
        t \in {<<>>, <<<<"L", "H", "R">>>>, <<<<"J", "F", "K">>>>}}

InitSearch ==
    /\ trips \in [{1, 2, 3} -> SearchTrips]
    /\ bookings = <<>>
    /\ tickets = <<>>
    /\ procs = <<>>
    /\ now = 0
    /\ call = [op |-> "none", result |-> "none"]

search_trips(GET) ==
    /\ call' = [op |-> "search_trips", GET |-> GET,
                from_code |-> SearchFromCode(GET),
                trips |-> SearchListed(GET),
                ai_recommended_trip |-> RecommendedTrip(SearchListed(GET))]
    /\ UNCHANGED <<tickets, trips, bookings, procs, now>>

NextSearch ==
    \/ \E GET \in SearchRequests : search_trips(GET)
    \/ \E i \in DOMAIN trips : trips[i].delay_minutes = 0 /\ AdminApplyDelay({i})

SpecSearch == InitSearch /\ [][NextSearch]_vars

SearchCalled == call.op = "search_trips"

\* the ids of the trips listed by the last search
ListedIds == {call.trips[k] : k \in DOMAIN call.trips}

\* C23: ai_recommended_trip is None if and only if the filtered list is
\* empty; otherwise it is a listed trip whose duration is minimal among the
\* listed trips and whose base depart_at is the earliest among the listed
\* trips of that duration, however soon the other trips depart.
C23_RecommendsShortest ==
    SearchCalled =>
        /\ (call.ai_recommended_trip = <<>>) <=> (call.trips = <<>>)
        /\ call.ai_recommended_trip # <<>> =>
              LET best == trips[call.ai_recommended_trip[1]]
              IN  /\ call.ai_recommended_trip[1] \in ListedIds
                  /\ \A i \in ListedIds :
                        /\ best.arrive_at - best.depart_at
                               <= trips[i].arrive_at - trips[i].depart_at
                        /\ (best.arrive_at - best.depart_at
                                = trips[i].arrive_at - trips[i].depart_at)
                               => best.depart_at <= trips[i].depart_at

\* C23 witness: the trip recommended is the shortest although another listed
\* trip departs sooner, and a third trip of the same duration departs later
C23_Witness ==
    /\ SearchCalled
    /\ call.ai_recommended_trip # <<>>
    /\ \E i, j \in ListedIds :
          LET best == trips[call.ai_recommended_trip[1]]
          IN  /\ trips[i].depart_at < best.depart_at
              /\ trips[i].arrive_at - trips[i].depart_at > best.arrive_at - best.depart_at
              /\ j # call.ai_recommended_trip[1]
              /\ trips[j].arrive_at - trips[j].depart_at = best.arrive_at - best.depart_at
              /\ trips[j].depart_at >= best.depart_at

====
